---------------------------- MODULE Spec2Model ----------------------------
(***************************************************************************)
(* Verification model of the classroom scheduler (ochna001/scheduler).     *)
(*                                                                         *)
(* The model follows src/scheduler.py (SchedulingOptimizer) and            *)
(* src/scheduler_large_dataset.py (solve_large_dataset).  Clock times      *)
(* 'HH:MM' are kept as minutes since midnight: the source compares the     *)
(* zero-padded strings lexicographically, which orders them as the minute  *)
(* counts do.  The MILP solver is an external collaborator: it is modelled *)
(* as a nondeterministic search that returns any 0/1 assignment satisfying *)
(* the linear constraints the code emitted, or reports failure.            *)
(***************************************************************************)
EXTENDS Integers, Sequences, FiniteSets, TLC

(***************************************************************************)
(* Bounds of the model.                                                    *)
(***************************************************************************)
\* Solution spaces are explored over the start slots whose offset within
\* the day is below MaxStartOffset (the valid-start function itself is
\* checked on the whole grid, see SpecStarts).
MaxStartOffset == 3

\* The solver sets at most MaxPerBlock variables of one component (its Y)
\* or of one session (its X) to 1 before the constraints are consulted.
MaxPerBlock == 1

\* Session durations (in half-hour slots) range over 2..MaxDuration when the
\* valid-start function is checked on its own.
MaxDuration == 4

\* The tier-by-tier and slice-by-slice strategies are explored on the first
\* MaxDays days of the week.
MaxDays == 3

(***************************************************************************)
(* Time grid: SchedulingOptimizer.__init__ and _generate_time_slots.       *)
(***************************************************************************)
days == <<"M", "T", "W", "TH", "F">>

\* the literal list `times` of _generate_time_slots, in minutes
times ==
  << <<480, 510>>, <<510, 540>>, <<540, 570>>, <<570, 600>>,
     <<600, 630>>, <<630, 660>>, <<660, 690>>, <<690, 720>>,
     <<780, 810>>, <<810, 840>>, <<840, 870>>, <<870, 900>>,
     <<900, 930>>, <<930, 960>>, <<960, 990>>, <<990, 1020>> >>

\* slots are numbered day by day; time_slots[k] is the slot with slot_id k
time_slots ==
  [k \in 0..(Len(days) * Len(times) - 1) |->
     [day     |-> days[(k \div Len(times)) + 1],
      start   |-> times[(k % Len(times)) + 1][1],
      end     |-> times[(k % Len(times)) + 1][2],
      slot_id |-> k]]

NumSlots == Cardinality(DOMAIN time_slots)

time_slots_per_day == NumSlots \div Len(days)

\* self.K = list(range(len(self.time_slots)))
AllK == 0..(NumSlots - 1)

\* the part of K explored when solution spaces are enumerated
K == {k \in AllK : k % time_slots_per_day < MaxStartOffset}

\* the first start of each day
ShortStarts == {k \in AllK : k % time_slots_per_day < 1}

Noon == 720

(***************************************************************************)
(* _get_valid_start_slots_for_pattern                                      *)
(***************************************************************************)
valid_days(day_pattern) ==
  IF day_pattern = "single_day" \/ day_pattern = "flexible"
    THEN {"M", "T", "W", "TH", "F"}
  ELSE IF day_pattern = "MWF" THEN {"M", "W", "F"}
  ELSE IF day_pattern = "2_days" THEN {"M", "T", "W", "TH", "F"}
  ELSE IF day_pattern = "MW" THEN {"M", "W"}
  ELSE {"M", "T", "W", "TH", "F"}

\* the start-time heuristic: TRUE when slot k is skipped for this duration
HeuristicSkips(k, duration) ==
  LET start_time == time_slots[k].start
      minute == start_time % 60
  IN \/ (duration = 2 /\ minute # 0)
     \/ (duration = 3 /\ start_time \notin {480, 570, 780, 870})
     \/ (duration > 3 /\ minute # 0)

\* variant without the lunch-break check
IsValidStart_NoLunchCheck(k, duration, day_pattern) ==
  LET day == time_slots[k].day
      end_slot_index == k + duration - 1
  IN /\ ~HeuristicSkips(k, duration)
     /\ day \in valid_days(day_pattern)
     /\ ~(end_slot_index >= NumSlots)
     /\ time_slots[end_slot_index].day = day

\* one iteration of the loop `for k in self.K`: does k enter valid_starts?
IsValidStart(k, duration, day_pattern) ==
  LET day == time_slots[k].day
      start_time == time_slots[k].start
      end_slot_index == k + duration - 1
  IN /\ ~HeuristicSkips(k, duration)
     /\ day \in valid_days(day_pattern)
     /\ ~(end_slot_index >= NumSlots)
     /\ time_slots[end_slot_index].day = day
     /\ ~(start_time < Noon /\ time_slots[end_slot_index].end > Noon)

ValidStarts(Kset, duration, day_pattern) ==
  {k \in Kset : IsValidStart(k, duration, day_pattern)}


(***************************************************************************)
(* Input tables.  An instance is what __init__ loads: the course table,    *)
(* the enrollment table and the room table, with the semester handed to    *)
(* build_model (0 stands for None) and the start slots explored.           *)
(***************************************************************************)
Course(code, year, semester, lec_hours, lab_hours) ==
  [code |-> code, year |-> year, semester |-> semester,
   lec_hours |-> lec_hours, lab_hours |-> lab_hours]

Cohort(program, year, block, students) ==
  [program |-> program, year |-> year, block |-> block, students |-> students]

Room(room_id, capacity, room_category) ==
  [room_id |-> room_id, capacity |-> capacity, room_category |-> room_category]

Instance(courses, enrollment, rooms, semester, horizon) ==
  [courses |-> courses, enrollment |-> enrollment, rooms |-> rooms,
   semester |-> semester, horizon |-> horizon]

\* course codes of the inputs used here that start with the given prefix
PathFitCodes == {"PathFit 1", "PathFit 2", "PathFit 3", "PathFit 4"}
NSTPCodes == {"NSTP 1"}

startswith(code, prefix) ==
  IF prefix = "PathFit" THEN code \in PathFitCodes
  ELSE IF prefix = "NSTP" THEN code \in NSTPCodes
  ELSE FALSE

Flatten(ss) ==
  LET f[n \in 0..Len(ss)] == IF n = 0 THEN <<>> ELSE f[n - 1] \o ss[n]
  IN f[Len(ss)]

(***************************************************************************)
(* _get_session_configs                                                    *)
(***************************************************************************)
Config(type, duration, pattern, meetings) ==
  [type |-> type, duration |-> duration, pattern |-> pattern, meetings |-> meetings]

\* variant: the one-day lecture of a course with a laboratory lasts 1.5 hours
LectureConfigs_Uneven(lec_hours, lab_hours) ==
  IF lec_hours > 0
    THEN IF lab_hours = 0
           THEN << Config("lecture", 3, "2_days", 2), Config("lecture", 2, "MWF", 3) >>
           ELSE << Config("lecture", 2, "2_days", 2), Config("lecture", 3, "single_day", 1) >>
    ELSE <<>>

LectureConfigs(lec_hours, lab_hours) ==
  IF lec_hours > 0
    THEN IF lab_hours = 0
           THEN << Config("lecture", 3, "2_days", 2), Config("lecture", 2, "MWF", 3) >>
           ELSE << Config("lecture", 2, "2_days", 2), Config("lecture", 4, "single_day", 1) >>
    ELSE <<>>

LabConfigs(lab_hours) ==
  IF lab_hours > 0
    THEN << Config("lab", 3, "2_days", 2), Config("lab", 2, "MWF", 3) >>
    ELSE <<>>

get_session_configs(course) ==
  IF course.code = "IT 128" \/ course.code = "IS 404"
    THEN << Config("lecture", 2, "2_days", 2), Config("lecture", 4, "single_day", 1) >>
  ELSE IF startswith(course.code, "PathFit")
    THEN << Config("lecture", 4, "single_day", 1) >>
  ELSE LectureConfigs(course.lec_hours, course.lab_hours) \o LabConfigs(course.lab_hours)

(***************************************************************************)
(* _generate_class_sections: components, patterns and sessions, with the   *)
(* running ids of the source (0-based; element n of a list has id n-1).    *)
(***************************************************************************)
\* configs_by_type keys, in insertion order
TypesInOrder(configs) ==
  LET f[n \in 0..Len(configs)] ==
        IF n = 0 THEN <<>>
        ELSE IF \E m \in 1..(n - 1) : configs[m].type = configs[n].type
               THEN f[n - 1]
               ELSE Append(f[n - 1], configs[n].type)
  IN f[Len(configs)]

ConfigsOfType(configs, type) ==
  LET f[n \in 0..Len(configs)] ==
        IF n = 0 THEN <<>>
        ELSE IF configs[n].type = type THEN Append(f[n - 1], configs[n]) ELSE f[n - 1]
  IN f[Len(configs)]

\* the courses a cohort iterates over and does not skip
CourseTaken(in, e, c) ==
  LET course == in.courses[c]
  IN /\ (in.semester # 0 => course.semester = in.semester)
     /\ course.year = in.enrollment[e].year
     /\ ~startswith(course.code, "NSTP")
     /\ get_session_configs(course) # <<>>

ComponentsOf(in, e, c) ==
  IF CourseTaken(in, e, c)
    THEN LET configs == get_session_configs(in.courses[c])
             types == TypesInOrder(configs)
         IN [t \in 1..Len(types) |->
               [course_code |-> in.courses[c].code,
                session_type |-> types[t],
                program |-> in.enrollment[e].program,
                year |-> in.enrollment[e].year,
                block |-> in.enrollment[e].block,
                students |-> in.enrollment[e].students,
                room_category |-> IF types[t] = "lab" THEN "lab" ELSE "non-lab",
                configs |-> ConfigsOfType(configs, types[t])]]
    ELSE <<>>

generate_components(in) ==
  LET raw == Flatten([e \in 1..Len(in.enrollment) |->
                        Flatten([c \in 1..Len(in.courses) |-> ComponentsOf(in, e, c)])])
  IN [n \in 1..Len(raw) |->
        [id |-> n - 1,
         course_code |-> raw[n].course_code,
         session_type |-> raw[n].session_type,
         program |-> raw[n].program, year |-> raw[n].year, block |-> raw[n].block,
         students |-> raw[n].students,
         room_category |-> raw[n].room_category,
         configs |-> raw[n].configs]]

generate_patterns(comps) ==
  LET raw == Flatten([n \in 1..Len(comps) |->
                        [m \in 1..Len(comps[n].configs) |->
                           [component_id |-> comps[n].id, config |-> comps[n].configs[m]]]])
  IN [n \in 1..Len(raw) |->
        [id |-> n - 1,
         component_id |-> raw[n].component_id,
         duration |-> raw[n].config.duration,
         pattern |-> raw[n].config.pattern,
         meetings |-> raw[n].config.meetings]]

generate_sessions(comps, pats) ==
  LET raw == Flatten([n \in 1..Len(pats) |->
                        [m \in 1..pats[n].meetings |-> pats[n]]])
  IN [n \in 1..Len(raw) |->
        LET comp == comps[raw[n].component_id + 1]
        IN [id |-> n - 1,
            pattern_id |-> raw[n].id,
            component_id |-> raw[n].component_id,
            duration_slots |-> raw[n].duration,
            day_pattern |-> raw[n].pattern,
            course_code |-> comp.course_code,
            session_type |-> comp.session_type,
            program |-> comp.program, year |-> comp.year, block |-> comp.block,
            students |-> comp.students,
            room_category |-> comp.room_category]]

(***************************************************************************)
(* _build_compatibility_matrix and the capacity lookup of build_model.     *)
(* The dict is filled row by row, so the last row of a room id decides;    *)
(* the capacity is read with .iloc[0], so the first row of the id decides. *)
(***************************************************************************)
RowsOf(rooms, room_id) == {r \in 1..Len(rooms) : rooms[r].room_id = room_id}

Max(S) == CHOOSE x \in S : \A y \in S : y <= x
Min(S) == CHOOSE x \in S : \A y \in S : x <= y

\* variant in which a non-lab course may use any room
build_compatibility_AnyRoomForLecture(rooms, room_id, course_category) ==
  LET room_category == rooms[Max(RowsOf(rooms, room_id))].room_category
  IN IF course_category = "lab" THEN room_category = "lab"
     ELSE course_category = "non-lab"

build_compatibility(rooms, room_id, course_category) ==
  LET room_category == rooms[Max(RowsOf(rooms, room_id))].room_category
  IN IF course_category = "lab" THEN room_category = "lab"
     ELSE IF course_category = "non-lab" THEN room_category = "non-lab"
     ELSE FALSE

room_capacity(rooms, room_id) == rooms[Min(RowsOf(rooms, room_id))].capacity

(***************************************************************************)
(* build_model: the data the optimizer keeps after construction.  Rooms    *)
(* are addressed by their index j in self.rooms (0-based).                 *)
(***************************************************************************)
XVar(i, j, k) == <<"X", i, j, k>>
YVar(p) == <<"Y", p, 0, 0>>

RoomIndices(rooms) == 0..(Len(rooms) - 1)

\* the guard of the variable-creation loop for session s and room index j
RoomAdmits(rooms, s, j) ==
  LET room_id == rooms[j + 1].room_id
  IN /\ build_compatibility(rooms, room_id, s.room_category)
     /\ ~(s.students > room_capacity(rooms, room_id))

\* self.valid_starts[i]
valid_starts_of(in, s) == ValidStarts(in.horizon, s.duration_slots, s.day_pattern)

\* keys (i, j, k) of self.X
build_X(in, sessions) ==
  UNION {{<<sessions[n].id, j, k>> : k \in valid_starts_of(in, sessions[n])} :
           <<n, j>> \in {q \in (1..Len(sessions)) \X RoomIndices(in.rooms) :
                           RoomAdmits(in.rooms, sessions[q[1]], q[2])}}

\* self.slot_occupation[(i, k_start)]
slot_occupation(sessions, i, k_start) ==
  {k_start + offset : offset \in 0..(sessions[i + 1].duration_slots - 1)}

group_key(s) == <<s.program, s.year, s.block>>

(***************************************************************************)
(* _add_constraints: each linear constraint is kept as                     *)
(*   sum(pos) - sum(neg)  (= | <=)  rhs                                    *)
(* over the 0/1 variables XVar and YVar.                                   *)
(***************************************************************************)
Constraint(family, a, b, c, d, pos, neg, sense, rhs) ==
  [name |-> <<family, a, b, c, d>>, pos |-> pos, neg |-> neg, sense |-> sense, rhs |-> rhs]

XVarsOf(X, i) == {XVar(x[1], x[2], x[3]) : x \in {y \in X : y[1] = i}}
XVarsInRoom(X, i, j) == {XVar(x[1], x[2], x[3]) : x \in {y \in X : y[1] = i /\ y[2] = j}}
XVarsAtTime(X, i, t) ==
  {XVar(x[1], x[2], x[3]) : x \in {y \in X : y[1] = i /\ y[3] % time_slots_per_day = t}}
XVarsOnDay(X, i, day_idx) ==
  {XVar(x[1], x[2], x[3]) :
     x \in {y \in X : y[1] = i /\ y[3] \div time_slots_per_day = day_idx}}

SeqRange(q) == {q[n] : n \in 1..Len(q)}

PatternsOfComponent(pats, comp_id) == {p \in SeqRange(pats) : p.component_id = comp_id}

\* ids of the sessions of a pattern, in list order
SessionsOfPattern(sessions, pattern_id) ==
  LET f[n \in 0..Len(sessions)] ==
        IF n = 0 THEN <<>>
        ELSE IF sessions[n].pattern_id = pattern_id
               THEN Append(f[n - 1], sessions[n].id) ELSE f[n - 1]
  IN f[Len(sessions)]

\* 1. exactly one pattern per component
\* variant: at most one pattern is chosen per component
PatternChoiceConstraints_AtMostOne(comps, pats, Y) ==
  {Constraint("PatternChoice", c.id, 0, 0, 0,
              {YVar(p.id) : p \in PatternsOfComponent(pats, c.id)}, {}, "le", 1) :
     c \in {c \in SeqRange(comps) : PatternsOfComponent(pats, c.id) # {}}}

PatternChoiceConstraints(comps, pats, Y) ==
  {Constraint("PatternChoice", c.id, 0, 0, 0,
              {YVar(p.id) : p \in PatternsOfComponent(pats, c.id)}, {}, "eq", 1) :
     c \in {c \in SeqRange(comps) : PatternsOfComponent(pats, c.id) # {}}}

\* variant: a session is scheduled at most once if its pattern is chosen
SessionAssignmentConstraints_AtMost(pats, sessions, X) ==
  {Constraint("SessionAssignment", s.id, 0, 0, 0,
              XVarsOf(X, s.id), {YVar(s.pattern_id)}, "le", 0) :
     s \in SeqRange(sessions)}

\* 2. a session is scheduled iff its pattern is chosen
SessionAssignmentConstraints(pats, sessions, X) ==
  {Constraint("SessionAssignment", s.id, 0, 0, 0,
              XVarsOf(X, s.id), {YVar(s.pattern_id)}, "eq", 0) :
     s \in SeqRange(sessions)}

\* variant that counts a session only at its start slot
RoomSlotAssignments_StartOnly(sessions, X, j, slot) ==
  {XVar(x[1], x[2], x[3]) : x \in {y \in X : y[2] = j /\ slot = y[3]}}

\* 3a. at most one session per (room, slot)
RoomSlotAssignments(sessions, X, j, slot) ==
  {XVar(x[1], x[2], x[3]) :
     x \in {y \in X : y[2] = j /\ slot \in slot_occupation(sessions, y[1], y[3])}}

RoomConflictConstraints(in, sessions, X) ==
  {Constraint("RoomConflict", q[1], q[2], 0, 0,
              RoomSlotAssignments(sessions, X, q[1], q[2]), {}, "le", 1) :
     q \in {r \in RoomIndices(in.rooms) \X AllK :
              Cardinality(RoomSlotAssignments(sessions, X, r[1], r[2])) > 1}}

\* variant that counts a session only at its start slot
GroupSlotAssignments_StartOnly(sessions, X, g, slot) ==
  {XVar(x[1], x[2], x[3]) :
     x \in {y \in X : group_key(sessions[y[1] + 1]) = g /\ slot = y[3]}}

\* 3b. at most one session per (cohort, slot)
GroupSlotAssignments(sessions, X, g, slot) ==
  {XVar(x[1], x[2], x[3]) :
     x \in {y \in X : /\ group_key(sessions[y[1] + 1]) = g
                      /\ slot \in slot_occupation(sessions, y[1], y[3])}}

GroupConflictConstraints(sessions, X) ==
  {Constraint("GroupConflict", q[1], q[2], 0, 0,
              GroupSlotAssignments(sessions, X, q[1], q[2]), {}, "le", 1) :
     q \in {r \in {group_key(s) : s \in SeqRange(sessions)} \X AllK :
              Cardinality(GroupSlotAssignments(sessions, X, r[1], r[2])) > 1}}

\* 4. the sessions of a multi-meeting pattern lie on different days
DifferentDayConstraints(pats, sessions, X) ==
  UNION {LET ids == SessionsOfPattern(sessions, p.id)
         IN {Constraint("DifferentDay", p.id, ids[q[1]], ids[q[2]], q[3],
                        XVarsOnDay(X, ids[q[1]], q[3]) \cup XVarsOnDay(X, ids[q[2]], q[3]),
                        {}, "le", 1) :
               q \in {r \in (1..Len(ids)) \X (1..Len(ids)) \X (0..(Len(days) - 1)) :
                        /\ Len(ids) > 1
                        /\ r[1] < r[2]
                        /\ XVarsOnDay(X, ids[r[1]], r[3]) # {}
                        /\ XVarsOnDay(X, ids[r[2]], r[3]) # {}}} :
           p \in SeqRange(pats)}

\* 5a. every further session of a pattern uses the room of its first session
SameRoomConstraints(in, pats, sessions, X) ==
  UNION {LET ids == SessionsOfPattern(sessions, p.id)
         IN {Constraint("SameRoom", p.id, ids[1], ids[q[1]], q[2],
                        XVarsInRoom(X, ids[1], q[2]), XVarsInRoom(X, ids[q[1]], q[2]),
                        "eq", 0) :
               q \in (2..Len(ids)) \X RoomIndices(in.rooms)} :
           p \in SeqRange(pats)}

\* variant without the time-of-day link
SameTimeConstraints_None(pats, sessions, X) == {}

\* 5b. ... and starts at the time of day of its first session
SameTimeConstraints(pats, sessions, X) ==
  UNION {LET ids == SessionsOfPattern(sessions, p.id)
         IN {Constraint("SameTime", p.id, ids[1], ids[q[1]], q[2],
                        XVarsAtTime(X, ids[1], q[2]), XVarsAtTime(X, ids[q[1]], q[2]),
                        "eq", 0) :
               q \in (2..Len(ids)) \X (0..(time_slots_per_day - 1))} :
           p \in SeqRange(pats)}

\* 6. variables of a compatible room that is too small are fixed to 0
CapacityConstraints(in, sessions, X) ==
  {Constraint("Capacity", x[1], x[2], x[3], 0, {XVar(x[1], x[2], x[3])}, {}, "eq", 0) :
     x \in {y \in X :
              /\ build_compatibility(in.rooms, in.rooms[y[2] + 1].room_id,
                                     sessions[y[1] + 1].room_category)
              /\ sessions[y[1] + 1].students
                   > room_capacity(in.rooms, in.rooms[y[2] + 1].room_id)}}

add_constraints(in, comps, pats, sessions, Y, X) ==
  PatternChoiceConstraints(comps, pats, Y)
    \cup SessionAssignmentConstraints(pats, sessions, X)
    \cup RoomConflictConstraints(in, sessions, X)
    \cup GroupConflictConstraints(sessions, X)
    \cup DifferentDayConstraints(pats, sessions, X)
    \cup SameRoomConstraints(in, pats, sessions, X)
    \cup SameTimeConstraints(pats, sessions, X)
    \cup CapacityConstraints(in, sessions, X)

\* the optimizer after build_model
build_model(in) ==
  LET comps == generate_components(in)
      pats == generate_patterns(comps)
      sessions == generate_sessions(comps, pats)
      Y == {p.id : p \in SeqRange(pats)}
      X == build_X(in, sessions)
  IN [in |-> in,
      course_components |-> comps,
      patterns |-> pats,
      sessions |-> sessions,
      Y |-> Y,
      X |-> X,
      constraints |-> add_constraints(in, comps, pats, sessions, Y, X)]

(***************************************************************************)
(* State.                                                                  *)
(***************************************************************************)
VARIABLES
  pc,       \* control location of the running strategy
  opt,      \* the SchedulingOptimizer in use: the record made by build_model
  model,    \* the constraints of the LpProblem handed to the solver
  value1,   \* the variables of opt whose value (varValue) is 1
  status,   \* status returned by the last solver call
  order,    \* solver: the variables to decide, block by block
  trail,    \* solver: the variables set to 1 so far in the search
  cursor,   \* solver: number of blocks decided
  call,     \* the running call of the function under check, with its locals
  greedy,   \* locals of _generate_initial_solution
  hier,     \* locals of solve_hierarchical
  prog,     \* locals of solve_progressive
  yrs,      \* locals of solve_large_dataset
  pbp,      \* the PBPScheduler object and the locals of solve_all_programs
  seq       \* locals of SchedulerGUI._run_sequential_optimization

vars == <<pc, opt, model, value1, status, order, trail, cursor,
          call, greedy, hier, prog, yrs, pbp, seq>>

\* the locals of the strategies, which the solver never touches
locals == <<call, greedy, hier, prog, yrs, pbp, seq>>

Null == [none |-> TRUE]

(***************************************************************************)
(* The solver (pulp's model.solve, external): a search that decides the    *)
(* variables block by block and never leaves a branch that can still       *)
(* be completed to an assignment satisfying every constraint.              *)
(***************************************************************************)
RECURSIVE SubsetsUpTo(_, _)
SubsetsUpTo(S, n) ==
  IF n = 0 THEN {{}}
  ELSE LET prev == SubsetsUpTo(S, n - 1)
       IN prev \cup {T \cup {v} : <<T, v>> \in prev \X S}

\* one block per component (its pattern variables), then one per session
BlocksOf(comps, pats, sessions, Y, X) ==
  [n \in 1..(Len(comps) + Len(sessions)) |->
     IF n <= Len(comps)
       THEN {YVar(p) : p \in {q \in Y : \E m \in 1..Len(pats) :
                                          /\ pats[m].id = q
                                          /\ pats[m].component_id = comps[n].id}}
       ELSE XVarsOf(X, sessions[n - Len(comps)].id)]

Undecided(blocks, done) == UNION {blocks[n] : n \in (done + 1)..Len(blocks)}

Lhs(c, ones) == Cardinality(c.pos \cap ones) - Cardinality(c.neg \cap ones)

Satisfies(c, ones) ==
  IF c.sense = "eq" THEN Lhs(c, ones) = c.rhs ELSE Lhs(c, ones) <= c.rhs

\* can constraint c still be met when `ones` are 1 and `free` are undecided?
Possible(c, ones, free) ==
  LET lo == Lhs(c, ones) - Cardinality(c.neg \cap free)
      hi == Lhs(c, ones) + Cardinality(c.pos \cap free)
  IN IF c.sense = "eq" THEN lo <= c.rhs /\ c.rhs <= hi ELSE lo <= c.rhs

Feasible(cons, ones) == \A c \in cons : Satisfies(c, ones)

SolverBranch ==
  /\ pc = "solving"
  /\ cursor < Len(order)
  /\ LET block == order[cursor + 1]
         free == Undecided(order, cursor + 1)
         touched == {c \in model : (c.pos \cup c.neg) \cap block # {}}
     IN \E S \in SubsetsUpTo(block, MaxPerBlock) :
          /\ \A c \in touched : Possible(c, trail \cup S, free)
          /\ trail' = trail \cup S
  /\ cursor' = cursor + 1
  /\ UNCHANGED <<pc, opt, model, value1, status, order, locals>>

\* the search is complete: the assignment is handed back
SolverReturn(next_pc) ==
  /\ pc = "solving"
  /\ cursor = Len(order)
  /\ Feasible(model, trail)
  /\ value1' = trail
  /\ status' = "Optimal"
  /\ pc' = next_pc
  /\ UNCHANGED <<opt, model, order, trail, cursor, locals>>

(***************************************************************************)
(* Full model: build_model, then one solver call.                          *)
(***************************************************************************)
Rooms3 ==
  << Room("R101", 30, "non-lab"), Room("LAB1", 30, "lab"), Room("R102", 10, "non-lab") >>

\* one cohort taking a lecture-and-lab course
OneCohortLecLab ==
  Instance(<< Course("IT 111", 1, 1, 2, 1), Course("NSTP 1", 1, 1, 3, 0),
              Course("IT 221", 2, 1, 2, 1), Course("IT 112", 1, 2, 2, 1) >>,
           << Cohort("BSIT", 1, "A", 20) >>, Rooms3, 1, K)

\* two cohorts, the second small enough for the small room
TwoCohortsPathFit ==
  Instance(<< Course("PathFit 1", 1, 1, 2, 0), Course("THESIS", 1, 1, 0, 0) >>,
           << Cohort("BSIT", 1, "A", 20), Cohort("BSIS", 1, "A", 8) >>, Rooms3, 0, K)

\* two cohorts competing for the one lab room
TwoCohortsLab ==
  Instance(<< Course("IT 115", 1, 1, 0, 1) >>,
           << Cohort("BSIT", 1, "A", 20), Cohort("BSIT", 1, "B", 25) >>, Rooms3, 1, K)

\* a lecture-and-lab course on rooms without any lab
LabWithoutLabRoom ==
  Instance(<< Course("IT 111", 1, 1, 2, 1) >>, << Cohort("BSIT", 1, "A", 20) >>,
           << Room("R101", 30, "non-lab") >>, 1, ShortStarts)

FullInstances == {OneCohortLecLab, TwoCohortsPathFit, TwoCohortsLab, LabWithoutLabRoom}

InitFull ==
  /\ pc = "built"
  /\ opt \in {build_model(in) : in \in FullInstances}
  /\ model = opt.constraints
  /\ value1 = {}
  /\ status = "none"
  /\ order = <<>>
  /\ trail = {}
  /\ cursor = 0
  /\ call = Null
  /\ greedy = Null
  /\ hier = Null
  /\ prog = Null
  /\ yrs = Null
  /\ pbp = Null
  /\ seq = Null

\* self.model.solve(solver)
SolveFull ==
  /\ pc = "built"
  /\ pc' = "solving"
  /\ order' = BlocksOf(opt.course_components, opt.patterns, opt.sessions, opt.Y, opt.X)
  /\ trail' = {}
  /\ cursor' = 0
  /\ UNCHANGED <<opt, model, value1, status, locals>>

ReturnFull == SolverReturn("solved")

\* the variables an equality without a positive term forces to 0
ForcedZero(cons) ==
  UNION {c.neg : c \in {d \in cons : d.sense = "eq" /\ d.rhs = 0 /\ d.pos = {}}}

\* some equality to 1 has only forced-to-0 variables on its left
ProvablyInfeasible(cons) ==
  \E c \in cons : /\ c.sense = "eq"
                  /\ c.rhs = 1
                  /\ c.neg = {}
                  /\ c.pos \subseteq ForcedZero(cons)

\* the solver finds the model infeasible: solve() returns the status
ReturnInfeasibleFull ==
  /\ pc = "solving"
  /\ cursor = 0
  /\ ProvablyInfeasible(model)
  /\ status' = "Infeasible"
  /\ pc' = "infeasible"
  /\ UNCHANGED <<opt, model, value1, order, trail, cursor, locals>>

NextFull == SolveFull \/ SolverBranch \/ ReturnFull \/ ReturnInfeasibleFull

SpecFull == InitFull /\ [][NextFull]_vars

(***************************************************************************)
(* Replaying an assignment: what the claims speak about.                   *)
(***************************************************************************)
\* the (session, room, start) triples whose X is 1
Placed(ones) == {<<v[2], v[3], v[4]>> : v \in {w \in ones : w[1] = "X"}}

\* the pattern ids whose Y is 1
Chosen(ones) == {v[2] : v \in {w \in ones : w[1] = "Y"}}

\* slots k..k+duration-1 of a placed triple
Covers(a, t) == a[3] <= t /\ t <= a[3] + opt.sessions[a[1] + 1].duration_slots - 1

CohortOf(a) ==
  <<opt.sessions[a[1] + 1].program, opt.sessions[a[1] + 1].year,
    opt.sessions[a[1] + 1].block>>

DayOf(k) == k \div 16
OffsetOf(k) == k % 16

NoRoomDoubleBooking(ones) ==
  \A a, b \in Placed(ones) :
    (a # b /\ a[2] = b[2]) => ~(\E t \in AllK : Covers(a, t) /\ Covers(b, t))

NoCohortDoubleBooking(ones) ==
  \A a, b \in Placed(ones) :
    (a # b /\ CohortOf(a) = CohortOf(b)) => ~(\E t \in AllK : Covers(a, t) /\ Covers(b, t))

PatternOf(a) == opt.sessions[a[1] + 1].pattern_id

\* same room, same time of day, different days for two sessions of a pattern
Cohesive(ones) ==
  \A a, b \in Placed(ones) :
    (a[1] # b[1] /\ PatternOf(a) = PatternOf(b) /\ PatternOf(a) \in Chosen(ones)) =>
      /\ a[2] = b[2]
      /\ OffsetOf(a[3]) = OffsetOf(b[3])
      /\ DayOf(a[3]) # DayOf(b[3])

\* C1: in every solution of the full model no room holds two sessions in
\* one time slot.
C1_RoomConflictFree == pc = "solved" => NoRoomDoubleBooking(value1)

\* a solution in which two cohorts meet in the same room on the same day
C1_Witness ==
  /\ pc = "solved"
  /\ \E a, b \in Placed(value1) :
       /\ CohortOf(a) # CohortOf(b)
       /\ a[2] = b[2]
       /\ DayOf(a[3]) = DayOf(b[3])

\* C2: in every solution of the full model no cohort attends two sessions
\* in one time slot, whatever the rooms.
C2_GroupConflictFree == pc = "solved" => NoCohortDoubleBooking(value1)

\* a solution in which one cohort has sessions in two rooms on the same day
C2_Witness ==
  /\ pc = "solved"
  /\ \E a, b \in Placed(value1) :
       /\ CohortOf(a) = CohortOf(b)
       /\ a[2] # b[2]
       /\ DayOf(a[3]) = DayOf(b[3])

C4_PatternAsUnit ==
  pc = "solved" =>
    /\ \A n \in 1..Len(opt.course_components) :
         Cardinality({p \in Chosen(value1) :
                        \E m \in 1..Len(opt.patterns) :
                          /\ opt.patterns[m].id = p
                          /\ opt.patterns[m].component_id = opt.course_components[n].id}) = 1
    /\ \A n \in 1..Len(opt.sessions) :
         Cardinality({a \in Placed(value1) : a[1] = opt.sessions[n].id})
           = IF opt.sessions[n].pattern_id \in Chosen(value1) THEN 1 ELSE 0

\* a solution with a component that had two patterns to choose from
C4_Witness ==
  /\ pc = "solved"
  /\ \E n, m \in 1..Len(opt.patterns) :
       /\ opt.patterns[n].component_id = opt.patterns[m].component_id
       /\ opt.patterns[n].id \in Chosen(value1)
       /\ opt.patterns[m].id \notin Chosen(value1)

(***************************************************************************)
(* The valid start slots as the specification describes them, on a grid    *)
(* of 5 days of 16 half-hour slots: 08:00-12:00 and 13:00-17:00.           *)
(***************************************************************************)
ClaimedStartTime(k) ==
  IF OffsetOf(k) < 8 THEN 480 + 30 * OffsetOf(k) ELSE 780 + 30 * (OffsetOf(k) - 8)

ClaimedDayAllowed(k, day_pattern) ==
  IF day_pattern = "MWF" THEN DayOf(k) \in {0, 2, 4} ELSE DayOf(k) \in 0..4

ClaimedStart(k, d, day_pattern) ==
  /\ k \in 0..79
  /\ ClaimedDayAllowed(k, day_pattern)
  /\ \A t \in k..(k + d - 1) :
       /\ t <= 79
       /\ DayOf(t) = DayOf(k)
       /\ (OffsetOf(t) < 8) = (OffsetOf(k) < 8)
  /\ (d = 2 \/ d >= 4) => ClaimedStartTime(k) % 60 = 0
  /\ d = 3 => ClaimedStartTime(k) \in {480, 570, 780, 870}

\* C5: an assignment variable exists only for a room of the category the
\* session requires, large enough for its students, and a valid start
\* slot; so no solution places a session in a wrong or too small room.
C5_OnlyAdmissibleVariables ==
  /\ \A x \in opt.X :
       LET s == opt.sessions[x[1] + 1]
           r == opt.in.rooms[x[2] + 1]
       IN /\ r.room_category = s.room_category
          /\ (s.session_type = "lab") = (r.room_category = "lab")
          /\ (s.session_type = "lecture") = (r.room_category = "non-lab")
          /\ s.students <= r.capacity
          /\ x[3] \in opt.in.horizon
          /\ ClaimedStart(x[3], s.duration_slots, s.day_pattern)
  /\ pc = "solved" =>
       \A a \in Placed(value1) :
         /\ opt.in.rooms[a[2] + 1].room_category = opt.sessions[a[1] + 1].room_category
         /\ opt.sessions[a[1] + 1].students <= opt.in.rooms[a[2] + 1].capacity

\* a solution with a lab session and a lecture session placed, for inputs
\* with a room of the right category that is too small for the session
C5_Witness ==
  /\ pc = "solved"
  /\ \E a, b \in Placed(value1) :
       /\ opt.sessions[a[1] + 1].session_type = "lab"
       /\ opt.sessions[b[1] + 1].session_type = "lecture"
       /\ \E j \in RoomIndices(opt.in.rooms) :
            /\ opt.in.rooms[j + 1].room_category = opt.sessions[b[1] + 1].room_category
            /\ opt.in.rooms[j + 1].capacity < opt.sessions[b[1] + 1].students

(***************************************************************************)
(* _get_valid_start_slots_for_pattern on its own, on the whole grid: the   *)
(* loop over self.K, one slot per step.                                    *)
(***************************************************************************)
DayPatterns == {"single_day", "2_days", "MWF"}

InitStarts ==
  /\ pc = "loop"
  /\ call \in [duration : 2..MaxDuration, day_pattern : DayPatterns,
               k : {0}, valid_starts : {{}}]
  /\ opt = Null
  /\ model = {}
  /\ value1 = {}
  /\ status = "none"
  /\ order = <<>>
  /\ trail = {}
  /\ cursor = 0
  /\ greedy = Null
  /\ hier = Null
  /\ prog = Null
  /\ yrs = Null
  /\ pbp = Null
  /\ seq = Null

\* the body of `for k in self.K`
StartsStep ==
  /\ pc = "loop"
  /\ call.k < NumSlots
  /\ call' = [call EXCEPT
                !.k = @ + 1,
                !.valid_starts =
                   IF IsValidStart(call.k, call.duration, call.day_pattern)
                     THEN @ \cup {call.k} ELSE @]
  /\ UNCHANGED <<pc, opt, model, value1, status, order, trail, cursor,
                 greedy, hier, prog, yrs, pbp, seq>>

\* return valid_starts
StartsReturn ==
  /\ pc = "loop"
  /\ call.k = NumSlots
  /\ pc' = "returned"
  /\ UNCHANGED <<opt, model, value1, status, order, trail, cursor, locals>>

NextStarts == StartsStep \/ StartsReturn

SpecStarts == InitStarts /\ [][NextStarts]_vars

\* C6: the slots returned for a duration and a day pattern are exactly
\* those on an allowed day that keep the session within one day and one
\* side of the midday gap and start at a canonical time for the duration.
C6_ValidStartsExact ==
  pc = "returned" =>
    call.valid_starts = {k \in 0..79 : ClaimedStart(k, call.duration, call.day_pattern)}

\* a finished call for 1.5-hour sessions on Monday/Wednesday/Friday that
\* returned a 14:30 start and rejected the 11:00 start
C6_Witness ==
  /\ pc = "returned"
  /\ call.duration = 3
  /\ call.day_pattern = "MWF"
  /\ 43 \in call.valid_starts
  /\ 38 \notin call.valid_starts

(***************************************************************************)
(* _generate_initial_solution: the greedy warm start, one loop step per    *)
(* action.  pc names the loop whose head is about to be evaluated.         *)
(***************************************************************************)
PatternIdsOf(pats, comp_id) ==
  LET f[n \in 0..Len(pats)] ==
        IF n = 0 THEN <<>>
        ELSE IF pats[n].component_id = comp_id
               THEN Append(f[n - 1], pats[n].id) ELSE f[n - 1]
  IN f[Len(pats)]

\* ids of the components with exactly n patterns, in list order
ComponentsWithCount(comps, pats, n) ==
  LET f[m \in 0..Len(comps)] ==
        IF m = 0 THEN <<>>
        ELSE IF Len(PatternIdsOf(pats, comps[m].id)) = n
               THEN Append(f[m - 1], comps[m].id) ELSE f[m - 1]
  IN f[Len(comps)]

\* sorted(self.course_components, key=number of patterns): a stable sort
SortedComponents(comps, pats) ==
  Flatten([n \in 1..(Len(pats) + 1) |-> ComponentsWithCount(comps, pats, n - 1)])

\* the first valid start of session s after slot `after`; -1 when none is left
NextStart(in, s, after) ==
  LET rest == {k \in valid_starts_of(in, s) : k > after}
  IN IF rest = {} THEN -1 ELSE Min(rest)

GreedySession == opt.sessions[greedy.sess[greedy.s] + 1]

\* is_conflict for the session, room and start under examination
IsConflict ==
  \E slot \in slot_occupation(opt.sessions, GreedySession.id, greedy.k) :
     \/ <<greedy.j, slot>> \in greedy.occupied_room_slots \cup greedy.temp_room_slots
     \/ <<group_key(GreedySession), slot>>
          \in greedy.occupied_group_slots \cup greedy.temp_group_slots

\* one cohort, one pure lecture course, the whole grid
GreedyLecture ==
  Instance(<< Course("GEC 1", 1, 1, 3, 0) >>,
           << Cohort("BSIT", 1, "A", 20) >>, Rooms3, 1, AllK)

\* one cohort whose week fills up
GreedyCrowded ==
  Instance(<< Course("IT 128", 1, 1, 0, 486), Course("PathFit 1", 1, 1, 2, 0),
              Course("PathFit 2", 1, 1, 2, 0), Course("PathFit 3", 1, 1, 2, 0),
              Course("PathFit 4", 1, 1, 2, 0), Course("IS 404", 1, 1, 0, 486) >>,
           << Cohort("BSIT", 1, "A", 25) >>, Rooms3, 1, K)

\* two cohorts sharing the lab room, the whole grid
GreedyTwoCohorts ==
  Instance(<< Course("IT 115", 1, 1, 0, 1), Course("PathFit 1", 1, 1, 2, 0) >>,
           << Cohort("BSIT", 1, "A", 20), Cohort("BSIT", 1, "B", 25) >>, Rooms3, 1, AllK)

\* one cohort, one room, the first start of two days: the two-session
\* pattern of the second course places one session and has no place for
\* the other
GreedyPartial ==
  Instance(<< Course("IT 128", 1, 1, 0, 486), Course("PathFit 1", 1, 1, 2, 0) >>,
           << Cohort("BSIT", 1, "A", 20) >>, << Room("R101", 30, "non-lab") >>, 1,
           {k \in ShortStarts : k \div time_slots_per_day < 2})

GreedyInstances == {GreedyLecture, GreedyCrowded, GreedyTwoCohorts, GreedyPartial}

InitGreedy ==
  /\ pc = "greedy_comp"
  /\ opt \in {build_model(in) : in \in GreedyInstances}
  /\ model = opt.constraints
  /\ value1 = {}
  /\ status = "none"
  /\ order = <<>>
  /\ trail = {}
  /\ cursor = 0
  /\ call = Null
  /\ greedy = [components |-> SortedComponents(opt.course_components, opt.patterns),
               c |-> 1, pats |-> <<>>, p |-> 1, sess |-> <<>>, s |-> 1,
               j |-> 0, k |-> -1,
               temp_assignments |-> {}, temp_room_slots |-> {}, temp_group_slots |-> {},
               occupied_room_slots |-> {}, occupied_group_slots |-> {},
               solution |-> [Y |-> {}, X |-> {}]]
  /\ hier = Null
  /\ prog = Null
  /\ yrs = Null
  /\ pbp = Null
  /\ seq = Null

GreedyFrame == UNCHANGED <<opt, model, value1, status, order, trail, cursor,
                           call, hier, prog, yrs, pbp, seq>>

\* for comp in components
GreedyNextComponent ==
  /\ pc = "greedy_comp"
  /\ greedy.c <= Len(greedy.components)
  /\ greedy' = [greedy EXCEPT
                  !.pats = PatternIdsOf(opt.patterns, greedy.components[greedy.c]),
                  !.p = 1]
  /\ pc' = "greedy_pat"
  /\ GreedyFrame

\* return solution
GreedyReturn ==
  /\ pc = "greedy_comp"
  /\ greedy.c > Len(greedy.components)
  /\ pc' = "greedy_done"
  /\ UNCHANGED greedy
  /\ GreedyFrame

\* for pat in patterns of comp
GreedyNextPattern ==
  /\ pc = "greedy_pat"
  /\ greedy.p <= Len(greedy.pats)
  /\ greedy' = [greedy EXCEPT
                  !.sess = SessionsOfPattern(opt.sessions, greedy.pats[greedy.p]),
                  !.s = 1,
                  !.temp_assignments = {},
                  !.temp_room_slots = {},
                  !.temp_group_slots = {}]
  /\ pc' = "greedy_sess"
  /\ GreedyFrame

\* no pattern of the component could be placed: the component is left out
GreedyGiveUp ==
  /\ pc = "greedy_pat"
  /\ greedy.p > Len(greedy.pats)
  /\ greedy' = [greedy EXCEPT !.c = @ + 1]
  /\ pc' = "greedy_comp"
  /\ GreedyFrame

\* for sess in sessions_in_pattern
GreedyNextSession ==
  /\ pc = "greedy_sess"
  /\ greedy.s <= Len(greedy.sess)
  /\ greedy' = [greedy EXCEPT !.j = 0]
  /\ pc' = "greedy_room"
  /\ GreedyFrame

\* is_pattern_schedulable: lock the pattern in and go to the next component
GreedyCommit ==
  /\ pc = "greedy_sess"
  /\ greedy.s > Len(greedy.sess)
  /\ greedy' = [greedy EXCEPT
                  !.solution = [Y |-> @.Y \cup {greedy.pats[greedy.p]},
                                X |-> @.X \cup greedy.temp_assignments],
                  !.occupied_room_slots = @ \cup greedy.temp_room_slots,
                  !.occupied_group_slots = @ \cup greedy.temp_group_slots,
                  !.c = @ + 1]
  /\ pc' = "greedy_comp"
  /\ GreedyFrame

\* for j, room_id in enumerate(self.rooms): the room is too small or of
\* the wrong category
GreedySkipRoom ==
  /\ pc = "greedy_room"
  /\ greedy.j < Len(opt.in.rooms)
  /\ ~RoomAdmits(opt.in.rooms, GreedySession, greedy.j)
  /\ greedy' = [greedy EXCEPT !.j = @ + 1]
  /\ UNCHANGED pc
  /\ GreedyFrame

GreedyEnterRoom ==
  /\ pc = "greedy_room"
  /\ greedy.j < Len(opt.in.rooms)
  /\ RoomAdmits(opt.in.rooms, GreedySession, greedy.j)
  /\ greedy' = [greedy EXCEPT !.k = NextStart(opt.in, GreedySession, -1)]
  /\ pc' = "greedy_slot"
  /\ GreedyFrame

\* variant: the slots of the sessions placed so far stay occupied
GreedySessionFails_KeepsPartial ==
  /\ pc = "greedy_room"
  /\ greedy.j >= Len(opt.in.rooms)
  /\ greedy' = [greedy EXCEPT
                  !.p = @ + 1,
                  !.occupied_room_slots = @ \cup greedy.temp_room_slots,
                  !.occupied_group_slots = @ \cup greedy.temp_group_slots]
  /\ pc' = "greedy_pat"
  /\ GreedyFrame

\* not is_session_schedulable: try the next pattern
GreedySessionFails ==
  /\ pc = "greedy_room"
  /\ greedy.j >= Len(opt.in.rooms)
  /\ greedy' = [greedy EXCEPT !.p = @ + 1]
  /\ pc' = "greedy_pat"
  /\ GreedyFrame

\* for k in valid_starts: a covered slot is taken
GreedyConflict ==
  /\ pc = "greedy_slot"
  /\ greedy.k # -1
  /\ IsConflict
  /\ greedy' = [greedy EXCEPT !.k = NextStart(opt.in, GreedySession, greedy.k)]
  /\ UNCHANGED pc
  /\ GreedyFrame

\* found a spot for this session
GreedyPlace ==
  /\ pc = "greedy_slot"
  /\ greedy.k # -1
  /\ ~IsConflict
  /\ LET session_slots == slot_occupation(opt.sessions, GreedySession.id, greedy.k)
     IN greedy' = [greedy EXCEPT
                     !.temp_assignments = @ \cup {<<GreedySession.id, greedy.j, greedy.k>>},
                     !.temp_room_slots = @ \cup {<<greedy.j, t>> : t \in session_slots},
                     !.temp_group_slots =
                        @ \cup {<<group_key(GreedySession), t>> : t \in session_slots},
                     !.s = @ + 1]
  /\ pc' = "greedy_sess"
  /\ GreedyFrame

\* every start of the room conflicts: next room
GreedyRoomExhausted ==
  /\ pc = "greedy_slot"
  /\ greedy.k = -1
  /\ greedy' = [greedy EXCEPT !.j = @ + 1]
  /\ pc' = "greedy_room"
  /\ GreedyFrame

NextGreedy ==
  \/ GreedyNextComponent
  \/ GreedyReturn
  \/ GreedyNextPattern
  \/ GreedyGiveUp
  \/ GreedyNextSession
  \/ GreedyCommit
  \/ GreedySkipRoom
  \/ GreedyEnterRoom
  \/ GreedySessionFails
  \/ GreedyConflict
  \/ GreedyPlace
  \/ GreedyRoomExhausted

SpecGreedy == InitGreedy /\ [][NextGreedy]_vars

\* the returned solution as a set of variables at 1
GreedyOnes ==
  {XVar(a[1], a[2], a[3]) : a \in greedy.solution.X}
    \cup {YVar(p) : p \in greedy.solution.Y}

\* C7: the greedy warm start has no room and no cohort double booking, and
\* the sessions of each committed multi-session pattern share room and
\* time-of-day offset and lie on pairwise distinct days.
C7_GreedyFeasible ==
  pc = "greedy_done" =>
    /\ NoRoomDoubleBooking(GreedyOnes)
    /\ NoCohortDoubleBooking(GreedyOnes)
    /\ Cohesive(GreedyOnes)

(***************************************************************************)
(* solve_hierarchical: priority tiers, each solved as a sub-model.         *)
(***************************************************************************)
\* _create_priority_groups: the priority of a component
priority_of(comp) ==
  IF comp.year = 4 THEN (IF comp.session_type = "lab" THEN 1 ELSE 2)
  ELSE IF comp.year = 3 THEN (IF comp.session_type = "lab" THEN 3 ELSE 4)
  ELSE IF comp.year = 2 THEN (IF comp.session_type = "lab" THEN 5 ELSE 6)
  ELSE (IF comp.session_type = "lab" THEN 7 ELSE 8)

\* component ids of one priority, in list order
ComponentsOfPriority(comps, priority) ==
  LET f[n \in 0..Len(comps)] ==
        IF n = 0 THEN <<>>
        ELSE IF priority_of(comps[n]) = priority
               THEN Append(f[n - 1], comps[n].id) ELSE f[n - 1]
  IN f[Len(comps)]

\* the non-empty groups, sorted by priority
create_priority_groups(comps) ==
  LET f[p \in 0..8] ==
        IF p = 0 THEN <<>>
        ELSE IF ComponentsOfPriority(comps, p) # <<>>
               THEN Append(f[p - 1], [priority |-> p,
                                      component_ids |-> ComponentsOfPriority(comps, p)])
               ELSE f[p - 1]
  IN f[8]

\* the placements of the scheduled components that the main model's
\* variable values show: chosen pattern, session of it, X at 1
ScheduledPlacements(o, ones, scheduled_components) ==
  {x \in o.X :
     /\ XVar(x[1], x[2], x[3]) \in ones
     /\ o.sessions[x[1] + 1].component_id \in scheduled_components
     /\ YVar(o.sessions[x[1] + 1].pattern_id) \in ones}

occupied_room_slots(o, ones, scheduled_components) ==
  UNION {{<<x[2], slot>> : slot \in slot_occupation(o.sessions, x[1], x[3])} :
           x \in ScheduledPlacements(o, ones, scheduled_components)}

occupied_group_slots(o, ones, scheduled_components) ==
  UNION {{<<group_key(o.sessions[x[1] + 1]), slot>> :
            slot \in slot_occupation(o.sessions, x[1], x[3])} :
           x \in ScheduledPlacements(o, ones, scheduled_components)}

\* variant that forgets the cohorts of the scheduled components
SubConflict_RoomOnly(o, x, occ_room, occ_group) ==
  \E slot \in slot_occupation(o.sessions, x[1], x[3]) : <<x[2], slot>> \in occ_room

\* is_conflict of the sub-model's variable-creation loop
SubConflict(o, x, occ_room, occ_group) ==
  \E slot \in slot_occupation(o.sessions, x[1], x[3]) :
     \/ <<x[2], slot>> \in occ_room
     \/ <<group_key(o.sessions[x[1] + 1]), slot>> \in occ_group

SelectIds(q, ids) ==
  LET f[n \in 0..Len(q)] ==
        IF n = 0 THEN <<>>
        ELSE IF q[n].id \in ids THEN Append(f[n - 1], q[n]) ELSE f[n - 1]
  IN f[Len(q)]

\* _create_sub_model
create_sub_model(o, component_ids, ones, scheduled_components) ==
  LET occ_room == occupied_room_slots(o, ones, scheduled_components)
      occ_group == occupied_group_slots(o, ones, scheduled_components)
      ids == SeqRange(component_ids)
      comps == SelectIds(o.course_components, ids)
      relevant_patterns ==
        SelectIds(o.patterns, {p.id : p \in {q \in SeqRange(o.patterns) : q.component_id \in ids}})
      relevant_sessions ==
        SelectIds(o.sessions, {t.id : t \in {q \in SeqRange(o.sessions) : q.component_id \in ids}})
      sub_Y == {p.id : p \in SeqRange(relevant_patterns)}
      sub_X == {x \in {<<t.id, j, k>> : t \in SeqRange(relevant_sessions),
                                         j \in RoomIndices(o.in.rooms),
                                         k \in o.in.horizon} :
                  /\ build_compatibility(o.in.rooms, o.in.rooms[x[2] + 1].room_id,
                                         o.sessions[x[1] + 1].room_category)
                  /\ ~(o.sessions[x[1] + 1].students
                         > room_capacity(o.in.rooms, o.in.rooms[x[2] + 1].room_id))
                  /\ x[3] \in valid_starts_of(o.in, o.sessions[x[1] + 1])
                  /\ ~SubConflict(o, x, occ_room, occ_group)}
  IN [comps |-> comps,
      patterns |-> relevant_patterns,
      sessions |-> relevant_sessions,
      Y |-> sub_Y,
      X |-> sub_X,
      constraints |->
        {Constraint("SubPattern", c.id, 0, 0, 0,
                    {YVar(p.id) : p \in PatternsOfComponent(relevant_patterns, c.id)},
                    {}, "eq", 1) :
           c \in {c \in SeqRange(comps) : PatternsOfComponent(relevant_patterns, c.id) # {}}}
        \cup {Constraint("SubSession", t.id, 0, 0, 0,
                         XVarsOf(sub_X, t.id), {YVar(t.pattern_id)}, "eq", 0) :
                t \in SeqRange(relevant_sessions)}
        \cup {Constraint("SubRoomConflict", q[1], q[2], 0, 0,
                         RoomSlotAssignments(o.sessions, sub_X, q[1], q[2]), {}, "le", 1) :
                q \in {r \in RoomIndices(o.in.rooms) \X AllK :
                         Cardinality(RoomSlotAssignments(o.sessions, sub_X, r[1], r[2])) > 1}}
        \cup {Constraint("SubGroupConflict", q[1], q[2], 0, 0,
                         GroupSlotAssignments(o.sessions, sub_X, q[1], q[2]), {}, "le", 1) :
                q \in {r \in {group_key(t) : t \in SeqRange(o.sessions)} \X AllK :
                         Cardinality(GroupSlotAssignments(o.sessions, sub_X, r[1], r[2])) > 1}}]

\* the days explored by the tier-by-tier and slice-by-slice strategies
ShortWeek == {k \in K : k \div time_slots_per_day < MaxDays}

\* a second-year cohort and a first-year cohort: tiers 6, 7 and 8
TwoYears ==
  Instance(<< Course("PathFit 3", 2, 1, 2, 0), Course("PathFit 1", 1, 1, 2, 0),
              Course("IT 115", 1, 1, 0, 1) >>,
           << Cohort("BSIT", 2, "A", 20), Cohort("BSIT", 1, "A", 20) >>,
           Rooms3, 1, ShortWeek)

HierInstances == {TwoYears}

InitHier ==
  /\ pc = "hier_loop"
  /\ opt \in {build_model(in) : in \in HierInstances}
  /\ model = opt.constraints
  /\ value1 = {}
  /\ status = "none"
  /\ order = <<>>
  /\ trail = {}
  /\ cursor = 0
  /\ call = Null
  /\ greedy = Null
  /\ hier = [priority_groups |-> create_priority_groups(opt.course_components),
             g |-> 1,
             scheduled_components |-> {},
             all_succeeded |-> TRUE,
             sub_X |-> {},
             phases |-> <<>>]
  /\ prog = Null
  /\ yrs = Null
  /\ pbp = Null
  /\ seq = Null

HierFrame == UNCHANGED <<opt, call, greedy, prog, yrs, pbp, seq>>

\* for priority, component_ids in priority_groups: build the sub-model and
\* hand it to the solver
HierCreateSubModel ==
  /\ pc = "hier_loop"
  /\ hier.g <= Len(hier.priority_groups)
  /\ LET group == hier.priority_groups[hier.g]
         sub == create_sub_model(opt, group.component_ids, value1,
                                 hier.scheduled_components)
     IN /\ model' = sub.constraints
        /\ order' = BlocksOf(sub.comps, sub.patterns, sub.sessions, sub.Y, sub.X)
        /\ hier' = [hier EXCEPT !.sub_X = sub.X,
                                !.phases = Append(@, group.priority)]
  /\ trail' = {}
  /\ cursor' = 0
  /\ pc' = "solving"
  /\ UNCHANGED <<value1, status>>
  /\ HierFrame

\* status == LpStatusOptimal: transfer the solution to the main model
HierPhaseOptimal ==
  /\ pc = "solving"
  /\ cursor = Len(order)
  /\ Feasible(model, trail)
  /\ status' = "Optimal"
  /\ value1' = value1 \cup trail
  /\ hier' = [hier EXCEPT
                !.scheduled_components =
                   @ \cup {opt.patterns[p + 1].component_id : p \in Chosen(trail)},
                !.g = @ + 1]
  /\ pc' = "hier_loop"
  /\ UNCHANGED <<model, order, trail, cursor>>
  /\ HierFrame

\* any other status (infeasible, or no solution within the time limit)
HierPhaseFails ==
  /\ pc = "solving"
  /\ cursor = 0
  /\ status' = "NotSolved"
  /\ hier' = [hier EXCEPT !.all_succeeded = FALSE, !.g = @ + 1]
  /\ pc' = "hier_loop"
  /\ UNCHANGED <<model, value1, order, trail, cursor>>
  /\ HierFrame

\* return LpStatusOptimal if all_succeeded else LpStatusNotSolved
HierReturn ==
  /\ pc = "hier_loop"
  /\ hier.g > Len(hier.priority_groups)
  /\ status' = IF hier.all_succeeded THEN "Optimal" ELSE "NotSolved"
  /\ pc' = "hier_done"
  /\ UNCHANGED <<model, value1, order, trail, cursor, hier>>
  /\ HierFrame

NextHier ==
  \/ HierCreateSubModel
  \/ SolverBranch
  \/ HierPhaseOptimal
  \/ HierPhaseFails
  \/ HierReturn

SpecHier == InitHier /\ [][NextHier]_vars

TierOf(a) == priority_of(opt.course_components[opt.sessions[a[1] + 1].component_id + 1])

\* C8: the tiers are solved in increasing priority number, no session of a
\* tier covers a (room, slot) or a (cohort, slot) covered by a session
\* scheduled in an earlier tier, and the union of the tiers' assignments
\* has no room and no cohort double booking.
C8_TiersNeverCollide ==
  /\ \A m, n \in 1..Len(hier.phases) :
       /\ hier.phases[m] \in 1..8
       /\ m < n => hier.phases[m] < hier.phases[n]
  /\ \A a, b \in Placed(value1) :
       TierOf(a) < TierOf(b) =>
         \A t \in AllK :
           Covers(a, t) /\ Covers(b, t) => a[2] # b[2] /\ CohortOf(a) # CohortOf(b)
  /\ NoRoomDoubleBooking(value1)
  /\ NoCohortDoubleBooking(value1)

\* all three tiers were scheduled; the last tier shares its room with the
\* first and its cohort with the second, and lost start slots to both
C8_Witness ==
  /\ pc = "hier_done"
  /\ hier.all_succeeded
  /\ hier.phases = <<6, 7, 8>>
  /\ \E a, b, c \in Placed(value1) :
       /\ TierOf(a) = 6 /\ TierOf(b) = 7 /\ TierOf(c) = 8
       /\ a[2] = c[2]
       /\ CohortOf(b) = CohortOf(c)
       /\ \E x, y \in opt.X \ hier.sub_X :
            /\ x[1] = c[1] /\ y[1] = c[1]
            /\ \E t \in AllK : Covers(x, t) /\ Covers(a, t) /\ x[2] = a[2]
            /\ \E t \in AllK : Covers(y, t) /\ Covers(b, t) /\ y[2] # b[2]

(***************************************************************************)
(* _generate_initial_solution as one call: the value it returns.           *)
(***************************************************************************)
\* evaluate e once and hand its value to Body
With(e, Body(_)) == CHOOSE r \in {Body(x) : x \in {e}} : TRUE

\* the first (room, start) in loop order that is admitted and free of
\* conflicts; <<-1, -1>> when the session cannot be placed
FirstFit(o, t, room_slots, group_slots) ==
  With({q \in RoomIndices(o.in.rooms) \X valid_starts_of(o.in, t) :
          /\ RoomAdmits(o.in.rooms, t, q[1])
          /\ \A slot \in slot_occupation(o.sessions, t.id, q[2]) :
               /\ <<q[1], slot>> \notin room_slots
               /\ <<group_key(t), slot>> \notin group_slots},
       LAMBDA fits :
         IF fits = {} THEN <<-1, -1>>
         ELSE With(Min({q[1] : q \in fits}),
                   LAMBDA j : <<j, Min({q[2] : q \in {r \in fits : r[1] = j}})>>))

\* one pass of the loop over the sessions of a pattern; prev holds the
\* occupied and the temporary entries together
PlaceSession(o, t, prev) ==
  With(FirstFit(o, t, prev.room_slots, prev.group_slots),
       LAMBDA fit :
         IF fit = <<-1, -1>> THEN [prev EXCEPT !.ok = FALSE]
         ELSE With(slot_occupation(o.sessions, t.id, fit[2]),
                   LAMBDA session_slots :
                     [ok |-> TRUE,
                      X |-> prev.X \cup {<<t.id, fit[1], fit[2]>>},
                      room_slots |-> prev.room_slots
                                       \cup {<<fit[1], slot>> : slot \in session_slots},
                      group_slots |-> prev.group_slots
                                        \cup {<<group_key(t), slot>> : slot \in session_slots}]))

\* the loop over the sessions of one pattern
PlacePattern(o, ids, room_slots, group_slots) ==
  LET f[n \in 0..Len(ids)] ==
        IF n = 0
          THEN [ok |-> TRUE, X |-> {}, room_slots |-> room_slots, group_slots |-> group_slots]
          ELSE With(f[n - 1],
                    LAMBDA prev : IF ~prev.ok THEN prev
                                  ELSE PlaceSession(o, o.sessions[ids[n] + 1], prev))
  IN f[Len(ids)]

\* the loop over the patterns of one component: the first that fits is
\* locked in
PlaceComponent(o, comp_id, acc) ==
  With(PatternIdsOf(o.patterns, comp_id),
       LAMBDA pat_ids :
         LET g[n \in 1..(Len(pat_ids) + 1)] ==
               IF n > Len(pat_ids) THEN acc
               ELSE With(PlacePattern(o, SessionsOfPattern(o.sessions, pat_ids[n]),
                                      acc.room_slots, acc.group_slots),
                         LAMBDA try :
                           IF try.ok
                             THEN [Y |-> acc.Y \cup {pat_ids[n]},
                                   X |-> acc.X \cup try.X,
                                   room_slots |-> try.room_slots,
                                   group_slots |-> try.group_slots]
                             ELSE g[n + 1])
         IN g[1])

generate_initial_solution(o) ==
  With(SortedComponents(o.course_components, o.patterns),
       LAMBDA components :
         LET f[n \in 0..Len(components)] ==
               IF n = 0 THEN [Y |-> {}, X |-> {}, room_slots |-> {}, group_slots |-> {}]
               ELSE With(f[n - 1], LAMBDA acc : PlaceComponent(o, components[n], acc))
         IN [Y |-> f[Len(components)].Y, X |-> f[Len(components)].X])

\* the step-by-step run and the single call return the same solution
GreedyRunsAgree ==
  pc = "greedy_done" => greedy.solution = generate_initial_solution(opt)

(***************************************************************************)
(* solve_progressive.  The solver hands back Optimal with an assignment,   *)
(* NotSolved with an assignment it could not prove optimal, or Infeasible  *)
(* with the variables untouched.                                           *)
(***************************************************************************)
\* the default time_limits
DefaultTimeLimits == <<300, 600, 1200>>

\* one cohort, one two-hour course: six ways to place it
OneCourse ==
  Instance(<< Course("PathFit 1", 1, 1, 2, 0) >>,
           << Cohort("BSIT", 1, "A", 20) >>, Rooms3, 1, ShortWeek)

\* a cohort that fits no room
NoRoomFits ==
  Instance(<< Course("PathFit 1", 1, 1, 2, 0) >>,
           << Cohort("BSIT", 1, "A", 40) >>, Rooms3, 1, ShortWeek)

ProgInstances == {OneCourse, NoRoomFits}

SolutionOnes(solution) ==
  {XVar(a[1], a[2], a[3]) : a \in solution.X} \cup {YVar(p) : p \in solution.Y}

InitProg ==
  /\ pc = "prog_loop"
  /\ opt \in {build_model(in) : in \in ProgInstances}
  /\ model = opt.constraints
  /\ value1 = {}
  /\ status = "none"
  /\ order = <<>>
  /\ trail = {}
  /\ cursor = 0
  /\ call = Null
  /\ greedy = Null
  /\ hier = Null
  /\ prog = [time_limits |-> DefaultTimeLimits,
             i |-> 1,
             best_solution |-> Null,
             best_objective |-> 0,
             best_status |-> "None",
             calls |-> <<>>]
  /\ yrs = Null
  /\ pbp = Null
  /\ seq = Null

ProgFrame == UNCHANGED <<opt, model, call, greedy, hier, yrs, pbp, seq>>

\* one pass of the loop up to self.model.solve: the warm start is written
\* into the variables with setInitialValue, then the solver is invoked
ProgInvoke ==
  /\ pc = "prog_loop"
  /\ prog.i <= Len(prog.time_limits)
  /\ LET warm == IF prog.best_solution # Null
                   THEN SolutionOnes(prog.best_solution)
                   ELSE SolutionOnes(generate_initial_solution(opt))
         installed == {v \in warm : \/ v[1] = "Y" /\ v[2] \in opt.Y
                                    \/ v[1] = "X" /\ <<v[2], v[3], v[4]>> \in opt.X}
     IN /\ value1' = value1 \cup installed
        /\ prog' = [prog EXCEPT
                      !.calls = Append(@, [time_limit |-> prog.time_limits[prog.i],
                                           best |-> prog.best_solution,
                                           initial |-> value1 \cup installed,
                                           status |-> "running"])]
  /\ order' = BlocksOf(opt.course_components, opt.patterns, opt.sessions, opt.Y, opt.X)
  /\ trail' = {}
  /\ cursor' = 0
  /\ pc' = "solving"
  /\ UNCHANGED status
  /\ ProgFrame

\* what the loop body does with a returned assignment
ProgAccept(st) ==
  LET objective_value == Cardinality(Chosen(trail))
      better == objective_value > prog.best_objective
  IN [prog EXCEPT
        !.best_objective = IF better THEN objective_value ELSE @,
        !.best_status = IF better THEN st ELSE @,
        !.best_solution = IF better THEN [Y |-> Chosen(trail), X |-> Placed(trail)] ELSE @,
        !.calls[Len(prog.calls)].status = st,
        !.i = @ + 1]

\* the solver returns Optimal: record the solution and break
ProgOptimal ==
  /\ pc = "solving"
  /\ cursor = Len(order)
  /\ Feasible(model, trail)
  /\ value1' = trail
  /\ status' = "Optimal"
  /\ prog' = ProgAccept("Optimal")
  /\ pc' = "prog_after"
  /\ UNCHANGED <<order, trail, cursor>>
  /\ ProgFrame

\* the solver returns NotSolved with an assignment: record it if it is
\* better than the best so far and go on
ProgNotSolved ==
  /\ pc = "solving"
  /\ cursor = Len(order)
  /\ Feasible(model, trail)
  /\ value1' = trail
  /\ status' = "NotSolved"
  /\ prog' = ProgAccept("NotSolved")
  /\ pc' = "prog_loop"
  /\ UNCHANGED <<order, trail, cursor>>
  /\ ProgFrame

\* the solver finds no way to decide the first variables: Infeasible
ProgInfeasible ==
  /\ pc = "solving"
  /\ cursor = 0
  /\ Len(order) > 0
  /\ \A S \in SubsetsUpTo(order[1], MaxPerBlock) :
       \E c \in model : ~Possible(c, S, Undecided(order, 1))
  /\ status' = "Infeasible"
  /\ prog' = [prog EXCEPT !.calls[Len(prog.calls)].status = "Infeasible", !.i = @ + 1]
  /\ pc' = "prog_loop"
  /\ UNCHANGED <<value1, order, trail, cursor>>
  /\ ProgFrame

\* the integers pulp gives to its status names
LpStatusCode(st) ==
  IF st = "Optimal" THEN 1
  ELSE IF st = "NotSolved" THEN 0
  ELSE IF st = "Infeasible" THEN 0 - 1
  ELSE IF st = "Unbounded" THEN 0 - 2
  ELSE 0 - 3

\* variant: only None counts as false
Truthy_NotNone(best_status) == best_status # "None"

\* the truth value of best_status in `best_status if best_status else ...`:
\* None and the integer 0 are false
Truthy(best_status) == best_status # "None" /\ LpStatusCode(best_status) # 0

\* return best_status if best_status else LpStatusInfeasible
ProgReturn ==
  /\ \/ pc = "prog_after"
     \/ pc = "prog_loop" /\ prog.i > Len(prog.time_limits)
  /\ status' = IF Truthy(prog.best_status) THEN prog.best_status ELSE "Infeasible"
  /\ pc' = "prog_done"
  /\ UNCHANGED <<value1, order, trail, cursor, prog>>
  /\ ProgFrame

NextProg ==
  \/ ProgInvoke
  \/ SolverBranch
  \/ ProgOptimal
  \/ ProgNotSolved
  \/ ProgInfeasible
  \/ ProgReturn

SpecProg == InitProg /\ [][NextProg]_vars

\* C9: the solver is invoked once per time limit in list order; every
\* invocation made when a best solution exists starts from exactly that
\* solution as initial values; no invocation follows one that returned
\* Optimal.
C9_WarmStartFromBest ==
  \A n \in 1..Len(prog.calls) :
    /\ n <= Len(prog.time_limits)
    /\ prog.calls[n].time_limit = prog.time_limits[n]
    /\ prog.calls[n].best # Null =>
         prog.calls[n].initial = SolutionOnes(prog.calls[n].best)
    /\ \A m \in 1..(n - 1) : prog.calls[m].status # "Optimal"

(***************************************************************************)
(* solve_large_dataset: one optimizer per year level, with the room slots  *)
(* of the years already committed blocked.  The solver hands back Optimal  *)
(* or NotSolved with an assignment, NotSolved with every variable at 0     *)
(* when the time ran out, or Infeasible with the variables left unset.     *)
(***************************************************************************)
\* sorted(enrollment_df['year'].unique())
SortedYears(enrollment) ==
  LET S == {enrollment[n].year : n \in 1..Len(enrollment)}
  IN [n \in 1..Cardinality(S) |->
        CHOOSE y \in S : Cardinality({z \in S : z < y}) = n - 1]

\* the inputs of the optimizer of one year: the enrollment rows of the year
YearInstance(in, year) ==
  Instance(in.courses, SelectSeq(in.enrollment, LAMBDA e : e.year = year),
           in.rooms, in.semester, in.horizon)

\* variant that looks at the start slot only
is_blocked_StartOnly(o, x, occupied_slots) == <<x[2], x[3]>> \in occupied_slots

\* add_occupation_constraints: does the variable touch an occupied slot?
is_blocked(o, x, occupied_slots) ==
  \E offset \in 0..(o.sessions[x[1] + 1].duration_slots - 1) :
     <<x[2], x[3] + offset>> \in occupied_slots

add_occupation_constraints(o, occupied_slots) ==
  {Constraint("Blocked", x[1], x[2], x[3], 0, {XVar(x[1], x[2], x[3])}, {}, "eq", 0) :
     x \in {y \in o.X : is_blocked(o, y, occupied_slots)}}

\* track_occupied_slots
track_occupied_slots(o, ones) ==
  UNION {{<<x[2], x[3] + offset>> :
            offset \in 0..(o.sessions[x[1] + 1].duration_slots - 1)} :
           x \in {y \in o.X : XVar(y[1], y[2], y[3]) \in ones}}

\* three year levels sharing the one room that is large enough, and a
\* fourth whose cohort fits no room
FourYears ==
  Instance(<< Course("PathFit 1", 1, 1, 2, 0), Course("PathFit 3", 2, 1, 2, 0),
              Course("IT 128", 3, 1, 0, 486), Course("IS 404", 4, 1, 0, 486) >>,
           << Cohort("BSIT", 2, "A", 20), Cohort("BSIT", 1, "A", 20),
              Cohort("BSIT", 3, "A", 20), Cohort("BSIS", 4, "A", 40) >>,
           Rooms3, 1, ShortWeek)

\* a first year level whose cohort fits no room, followed by one that fits
FirstYearFails ==
  Instance(<< Course("PathFit 1", 1, 1, 2, 0), Course("PathFit 3", 2, 1, 2, 0) >>,
           << Cohort("BSIS", 1, "A", 40), Cohort("BSIT", 2, "A", 20) >>,
           Rooms3, 1, ShortWeek)

YearInputs == {FourYears, FirstYearFails}

InitYear ==
  /\ pc = "year_loop"
  /\ opt = Null
  /\ model = {}
  /\ value1 = {}
  /\ status = "none"
  /\ order = <<>>
  /\ trail = {}
  /\ cursor = 0
  /\ call = Null
  /\ greedy = Null
  /\ hier = Null
  /\ prog = Null
  /\ pbp = Null
  /\ seq = Null
  /\ yrs \in {[input |-> in,
               years |-> SortedYears(in.enrollment),
               y |-> 1,
               occupied_room_slots |-> {},
               all_solutions |-> <<>>,
               simulation_stopped |-> FALSE,
               stopped_at |-> <<"none", 0>>,
               exported |-> {}] : in \in YearInputs}

YearFrame == UNCHANGED <<call, greedy, hier, prog, pbp, seq>>

\* stopped_at notes where the worker thread was when the stop was requested
\* the callback handed over by run_simulation: lambda: self.simulation_stopped
stop_check == yrs.simulation_stopped

\* variant of the loop head that never polls the callback
MayStartYear_Always == TRUE

\* the head of the loop: the body runs unless stop_check() returns True
MayStartYear == ~stop_check

\* SchedulerGUI.stop_simulation, run by the GUI thread while the worker
\* thread is inside run_simulation
stop_simulation ==
  /\ pc \in {"year_loop", "solving", "year_export"}
  /\ ~yrs.simulation_stopped
  /\ yrs' = [yrs EXCEPT !.simulation_stopped = TRUE,
                         !.stopped_at = <<pc, yrs.y>>]
  /\ UNCHANGED <<pc, opt, model, value1, status, order, trail, cursor>>
  /\ YearFrame

\* stop_check() returns True: leave the loop
YearStop ==
  /\ pc = "year_loop"
  /\ yrs.y <= Len(yrs.years)
  /\ ~MayStartYear
  /\ pc' = "year_export"
  /\ UNCHANGED <<opt, model, value1, status, order, trail, cursor, yrs>>
  /\ YearFrame

\* build the optimizer of the year, block the occupied slots, call solve
YearBuild ==
  /\ pc = "year_loop"
  /\ yrs.y <= Len(yrs.years)
  /\ MayStartYear
  /\ \E o \in {build_model(YearInstance(yrs.input, yrs.years[yrs.y]))} :
       /\ opt' = o
       /\ model' = o.constraints \cup add_occupation_constraints(o, yrs.occupied_room_slots)
       /\ order' = BlocksOf(o.course_components, o.patterns, o.sessions, o.Y, o.X)
  /\ value1' = {}
  /\ trail' = {}
  /\ cursor' = 0
  /\ pc' = "solving"
  /\ UNCHANGED <<status, yrs>>
  /\ YearFrame

\* the loop body after solve, for a status and the variables at 1
YearAfterSolve(st, ones) ==
  IF st = "Optimal" \/ Cardinality(Chosen(ones)) > 0
    THEN [yrs EXCEPT
            !.all_solutions = Append(@, [year |-> yrs.years[yrs.y],
                                         sessions |-> opt.sessions,
                                         X |-> Placed(ones)]),
            !.occupied_room_slots = @ \cup track_occupied_slots(opt, ones),
            !.y = @ + 1]
    ELSE [yrs EXCEPT !.y = @ + 1]

YearOptimal ==
  /\ pc = "solving"
  /\ cursor = Len(order)
  /\ Feasible(model, trail)
  /\ value1' = trail
  /\ status' = "Optimal"
  /\ yrs' = YearAfterSolve("Optimal", trail)
  /\ pc' = "year_loop"
  /\ UNCHANGED <<opt, model, order, trail, cursor>>
  /\ YearFrame

YearNotSolved ==
  /\ pc = "solving"
  /\ cursor = Len(order)
  /\ Feasible(model, trail)
  /\ value1' = trail
  /\ status' = "NotSolved"
  /\ yrs' = YearAfterSolve("NotSolved", trail)
  /\ pc' = "year_loop"
  /\ UNCHANGED <<opt, model, order, trail, cursor>>
  /\ YearFrame

\* the time ran out before any assignment was found
YearNoSolution ==
  /\ pc = "solving"
  /\ cursor = 0
  /\ value1' = {}
  /\ status' = "NotSolved"
  /\ yrs' = YearAfterSolve("NotSolved", {})
  /\ pc' = "year_loop"
  /\ UNCHANGED <<opt, model, order, trail, cursor>>
  /\ YearFrame

\* Infeasible: the variables have no value, the objective evaluates to
\* None, and the comparison `None > 0` raises TypeError
YearInfeasible ==
  /\ pc = "solving"
  /\ cursor = 0
  /\ Len(order) > 0
  /\ \A S \in SubsetsUpTo(order[1], MaxPerBlock) :
       \E c \in model : ~Possible(c, S, Undecided(order, 1))
  /\ status' = "Infeasible"
  /\ pc' = "year_raised"
  /\ UNCHANGED <<opt, model, value1, order, trail, cursor, yrs>>
  /\ YearFrame

\* export the committed years and return all_solutions
YearReturn ==
  /\ \/ pc = "year_export"
     \/ pc = "year_loop" /\ yrs.y > Len(yrs.years)
  /\ pc' = "year_done"
  /\ yrs' = [yrs EXCEPT !.exported =
                {yrs.all_solutions[n].year : n \in 1..Len(yrs.all_solutions)}]
  /\ UNCHANGED <<opt, model, value1, status, order, trail, cursor>>
  /\ YearFrame

NextYear ==
  \/ stop_simulation
  \/ YearStop
  \/ YearBuild
  \/ SolverBranch
  \/ YearOptimal
  \/ YearNotSolved
  \/ YearNoSolution
  \/ YearInfeasible
  \/ YearReturn

SpecYear == InitYear /\ [][NextYear]_vars

\* the (room, slot) pairs covered by the committed solution sol
SlotsOfSolution(sol) ==
  UNION {{<<x[2], x[3] + offset>> :
            offset \in 0..(sol.sessions[x[1] + 1].duration_slots - 1)} : x \in sol.X}

YearsApart ==
  \A m, n \in 1..Len(yrs.all_solutions) :
    m < n => SlotsOfSolution(yrs.all_solutions[m])
               \cap SlotsOfSolution(yrs.all_solutions[n]) = {}

OccupiedCoversCommitted ==
  \A n \in 1..Len(yrs.all_solutions) :
    SlotsOfSolution(yrs.all_solutions[n]) \subseteq yrs.occupied_room_slots

TouchingVariablesFixed ==
  pc = "solving" =>
    \A x \in opt.X :
      (\E slot \in slot_occupation(opt.sessions, x[1], x[3]) :
          <<x[2], slot>> \in yrs.occupied_room_slots)
        => \E c \in model : /\ c.pos = {XVar(x[1], x[2], x[3])}
                            /\ c.neg = {}
                            /\ c.sense = "eq"
                            /\ c.rhs = 0

\* C10: no session of a committed year covers a (room, slot) covered by a
\* session of a year committed before it; the occupied set only grows,
\* contains every slot covered by every committed year, and every variable
\* of a later year that touches it is fixed to 0.
C10_YearsNeverCollide ==
  /\ [](YearsApart /\ OccupiedCoversCommitted /\ TouchingVariablesFixed)
  /\ [][yrs.occupied_room_slots \subseteq yrs'.occupied_room_slots]_vars

\* three years committed in the same room, the later ones solved with
\* blocked variables
C10_Witness ==
  /\ pc = "year_loop"
  /\ Len(yrs.all_solutions) = 3
  /\ \E a \in yrs.all_solutions[1].X, b \in yrs.all_solutions[2].X,
        c \in yrs.all_solutions[3].X : a[2] = b[2] /\ b[2] = c[2]
  /\ \E c \in model : c.name[1] = "Blocked"

\* the solve of the current year ended without a solution: Infeasible, or
\* the time ran out with every variable at 0
YearFailed ==
  /\ pc = "solving"
  /\ pc' # "solving"
  /\ \/ status' = "Infeasible"
     \/ status' = "NotSolved" /\ value1' = {}

\* C11: when the solve of a year yields no solution, the year adds nothing
\* to the occupied set or to the committed solutions, and control returns
\* to the head of the loop at the next year.
C11_FailedYearIsSkipped ==
  [][YearFailed =>
       /\ pc' = "year_loop"
       /\ yrs'.y = yrs.y + 1
       /\ yrs'.occupied_room_slots = yrs.occupied_room_slots
       /\ yrs'.all_solutions = yrs.all_solutions]_vars

\* the worker thread keeps running until solve_large_dataset returns or raises
SpecYearFair == SpecYear /\ WF_vars(NextYear)

CommittedYears == {yrs.all_solutions[n].year : n \in 1..Len(yrs.all_solutions)}

\* a solve in flight when the stop was requested ends as it would have
\* without the stop: a solution is committed
InFlightSolveCommits ==
  [][(/\ pc = "solving"
      /\ yrs.simulation_stopped
      /\ pc' # "solving"
      /\ status' = "Optimal" \/ Chosen(value1') # {})
       => /\ pc' = "year_loop"
          /\ Len(yrs'.all_solutions) = Len(yrs.all_solutions) + 1
          /\ yrs'.all_solutions[Len(yrs'.all_solutions)].year = yrs.years[yrs.y]
          /\ yrs'.all_solutions[Len(yrs'.all_solutions)].X = Placed(value1')
          /\ yrs'.occupied_room_slots =
               yrs.occupied_room_slots \cup track_occupied_slots(opt, value1')]_vars

\* only the year in flight at the stop is ever solved after it
NoYearStartedAfterStop ==
  /\ []((yrs.simulation_stopped /\ pc = "solving")
          => yrs.stopped_at = <<"solving", yrs.y>>)
  /\ [][yrs.simulation_stopped /\ pc # "solving" => pc' # "solving"]_vars

MaxProgramDays == 1

ProgramCourse(code, program, year, semester, lec_hours, lab_hours) ==
  [code |-> code, program |-> program, year |-> year, semester |-> semester,
   lec_hours |-> lec_hours, lab_hours |-> lab_hours]

\* _generate_time_slots: hours 8..16 without 12, two slots per hour
pbp_time_slots ==
  LET hours == <<8, 9, 10, 11, 13, 14, 15, 16>>
  IN [n \in 1..(MaxProgramDays * 2 * Len(hours)) |->
        [index |-> n - 1,
         day_idx |-> (n - 1) \div (2 * Len(hours)),
         hour |-> hours[((n - 1) % (2 * Len(hours))) \div 2 + 1],
         minute |-> 30 * ((n - 1) % 2)]]

\* len(self.time_slots) // 5, 5 being the number of days
pbp_slots_per_day == Len(pbp_time_slots) \div MaxProgramDays

\* enrollment_df.groupby('program').size()
ProgramSize(enrollment, p) ==
  Cardinality({n \in 1..Len(enrollment) : enrollment[n].program = p})

\* the orders sort_values(ascending=False) may give: descending size, ties
\* in any order
ProgramOrders(enrollment) ==
  LET P == {enrollment[n].program : n \in 1..Len(enrollment)}
  IN {q \in [1..Cardinality(P) -> P] :
        /\ \A a, b \in 1..Cardinality(P) : a # b => q[a] # q[b]
        /\ \A a, b \in 1..Cardinality(P) :
             a < b => ProgramSize(enrollment, q[a]) >= ProgramSize(enrollment, q[b])}

\* PBPScheduler.__init__
PBPScheduler(courses, enrollment, rooms, semester, programs) ==
  [courses_df |-> SelectSeq(courses, LAMBDA c : c.semester = semester),
   enrollment_df |-> enrollment,
   rooms_df |-> rooms,
   programs |-> programs,
   occupied_slots |-> {},
   all_schedules |-> <<>>,
   program_stats |-> <<>>]

\* the lab sessions the programs still to come need: one per lab course
\* and block of the course's year
remaining_lab_sessions(self, remaining_programs) ==
  Cardinality({<<c, e>> \in (1..Len(self.courses_df)) \X (1..Len(self.enrollment_df)) :
                 /\ self.courses_df[c].program \in SeqRange(remaining_programs)
                 /\ self.courses_df[c].lab_hours > 0
                 /\ self.enrollment_df[e].program = self.courses_df[c].program
                 /\ self.enrollment_df[e].year = self.courses_df[c].year})

\* the start offsets (8AM or 1PM) at which a 3-hour block fits in the day
ReservableOffsets(day_start) ==
  {o \in {0, 8} :
     /\ day_start + o + 6 <= day_start + pbp_slots_per_day
     /\ \A s \in (day_start + o)..(day_start + o + 5) : pbp_time_slots[s + 1].hour # 12}

\* the body of the two loops over days and lab rooms, from the n-th
\* (day, room) pair on
RECURSIVE ReserveFrom(_, _, _, _)
ReserveFrom(pairs, n, reserved_count, needed) ==
  IF n > Len(pairs) \/ reserved_count >= needed THEN {}
  ELSE LET day_start == pairs[n][1] * pbp_slots_per_day
           room == pairs[n][2]
       IN IF ReservableOffsets(day_start) = {}
            THEN ReserveFrom(pairs, n + 1, reserved_count, needed)
            ELSE {<<room, s>> :
                    s \in (day_start + Min(ReservableOffsets(day_start)))
                            ..(day_start + Min(ReservableOffsets(day_start)) + 5)}
                   \cup ReserveFrom(pairs, n + 1, reserved_count + 1, needed)

\* _calculate_reserved_lab_slots
calculate_reserved_lab_slots(self, remaining_programs) ==
  LET lab_rooms == SelectSeq(self.rooms_df, LAMBDA r : r.room_category = "lab")
      pairs == [n \in 1..(MaxProgramDays * Len(lab_rooms)) |->
                  << (n - 1) \div Len(lab_rooms),
                     lab_rooms[((n - 1) % Len(lab_rooms)) + 1].room_id >>]
  IN IF Len(remaining_programs) = 0
          \/ remaining_lab_sessions(self, remaining_programs) = 0
          \/ Len(lab_rooms) = 0
       THEN {}
       ELSE ReserveFrom(pairs, 1, 0, remaining_lab_sessions(self, remaining_programs))

\* the sessions of one course for one block, without their ids
SessionsOfBlock(course, block) ==
  LET block_id == <<block.program, course.year, block.block>>
      lec == [component |-> <<course.code, "LEC", block_id>>,
              course_code |-> course.code, block |-> block_id,
              room_type |-> "lecture", duration_slots |-> 2,
              students |-> block.students]
      lab == [component |-> <<course.code, "LAB", block_id>>,
              course_code |-> course.code, block |-> block_id,
              room_type |-> "lab", duration_slots |-> 6,
              students |-> block.students]
  IN (IF course.lec_hours = 3 THEN <<lec, lec, lec>>
      ELSE IF course.lec_hours = 2 THEN <<lec, lec>>
      ELSE <<>>)
     \o (IF course.lab_hours > 0 THEN <<lab>> ELSE <<>>)

\* _generate_sessions: ids count the sessions in the order they are made
pbp_generate_sessions(self, program) ==
  LET prog_enrollment == SelectSeq(self.enrollment_df, LAMBDA e : e.program = program)
      prog_courses == SelectSeq(self.courses_df, LAMBDA c : c.program = program)
      made == Flatten([c \in 1..Len(prog_courses) |->
                Flatten([b \in 1..Len(prog_enrollment) |->
                   IF prog_enrollment[b].year = prog_courses[c].year
                     THEN SessionsOfBlock(prog_courses[c], prog_enrollment[b])
                     ELSE <<>>])])
  IN [n \in 1..Len(made) |->
        [id |-> n - 1,
         component |-> made[n].component,
         course_code |-> made[n].course_code,
         block |-> made[n].block,
         room_type |-> made[n].room_type,
         duration_slots |-> made[n].duration_slots,
         students |-> made[n].students]]

\* variant that looks at the start slot only
pbp_is_blocked_StartOnly(self, reserved_lab_slots, room_id, slot_idx, end_slot) ==
  <<room_id, slot_idx>> \in self.occupied_slots \cup reserved_lab_slots

\* is a slot of the session occupied by an earlier program or reserved?
pbp_is_blocked(self, reserved_lab_slots, room_id, slot_idx, end_slot) ==
  \E s \in slot_idx..(end_slot - 1) :
     <<room_id, s>> \in self.occupied_slots \/ <<room_id, s>> \in reserved_lab_slots

\* the room filter of the variable loop
pbp_room_admits(session, room) ==
  /\ ~(session.room_type = "lab" /\ room.room_category # "lab")
  /\ ~(session.students > room.capacity)

\* the slot filter of the variable loop
pbp_slot_admits(self, reserved_lab_slots, session, room_id, slot_idx) ==
  LET end_slot == slot_idx + session.duration_slots
  IN /\ ~(end_slot > Len(pbp_time_slots))
     /\ pbp_time_slots[end_slot].day_idx = pbp_time_slots[slot_idx + 1].day_idx
     /\ \A s \in slot_idx..(end_slot - 1) : pbp_time_slots[s + 1].hour # 12
     /\ ~pbp_is_blocked(self, reserved_lab_slots, room_id, slot_idx, end_slot)

\* the keys of X: (session_id, room_id, slot_idx)
pbp_build_X(self, sessions, reserved_lab_slots) ==
  {x \in (0..(Len(sessions) - 1)) \X {self.rooms_df[r].room_id : r \in 1..Len(self.rooms_df)}
           \X (0..(Len(pbp_time_slots) - 1)) :
     /\ \E r \in 1..Len(self.rooms_df) :
          /\ self.rooms_df[r].room_id = x[2]
          /\ pbp_room_admits(sessions[x[1] + 1], self.rooms_df[r])
     /\ pbp_slot_admits(self, reserved_lab_slots, sessions[x[1] + 1], x[2], x[3])}

\* slot_occ: the slots a session started at slot_idx covers
pbp_slot_occ(sessions, sid, slot_idx) ==
  slot_idx..(slot_idx + sessions[sid + 1].duration_slots - 1)

\* "Assign": each session exactly once
pbp_assign_constraints(sessions, X) ==
  {Constraint("Assign", i, 0, 0, 0, XVarsOf(X, i), {}, "eq", 1) :
     i \in {j \in 0..(Len(sessions) - 1) : XVarsOf(X, j) # {}}}

\* room_slot_vars[(rid, s)]
pbp_room_slot_vars(sessions, X, rid, s) ==
  {XVar(x[1], x[2], x[3]) :
     x \in {y \in X : y[2] = rid /\ s \in pbp_slot_occ(sessions, y[1], y[3])}}

\* "Room": at most one session per room and slot
pbp_room_constraints(sessions, X) ==
  {Constraint("Room", k[1], k[2], 0, 0,
              pbp_room_slot_vars(sessions, X, k[1], k[2]), {}, "le", 1) :
     k \in {q \in {y[2] : y \in X} \X (0..(Len(pbp_time_slots) - 1)) :
              Cardinality(pbp_room_slot_vars(sessions, X, q[1], q[2])) > 1}}

\* group_slot_vars[(block, s)]
pbp_group_slot_vars(sessions, X, blk, s) ==
  {XVar(x[1], x[2], x[3]) :
     x \in {y \in X : /\ sessions[y[1] + 1].block = blk
                      /\ s \in pbp_slot_occ(sessions, y[1], y[3])}}

\* "Group": at most one session per block and slot
pbp_group_constraints(sessions, X) ==
  {Constraint("Group", k[1], k[2], 0, 0,
              pbp_group_slot_vars(sessions, X, k[1], k[2]), {}, "le", 1) :
     k \in {q \in {sessions[y[1] + 1].block : y \in X} \X (0..(Len(pbp_time_slots) - 1)) :
              Cardinality(pbp_group_slot_vars(sessions, X, q[1], q[2])) > 1}}

pbp_constraints(sessions, X) ==
  pbp_assign_constraints(sessions, X)
    \cup pbp_room_constraints(sessions, X)
    \cup pbp_group_constraints(sessions, X)

\* X.items() order: session, then room in table order, then slot
pbp_precedes(rooms, y, x) ==
  LET pos(room_id) == Min({r \in 1..Len(rooms) : rooms[r].room_id = room_id})
  IN \/ y[1] < x[1]
     \/ y[1] = x[1] /\ pos(y[2]) < pos(x[2])
     \/ y[1] = x[1] /\ y[2] = x[2] /\ y[3] < x[3]

\* one row of the schedule of a program, for a variable with value 1;
\* index is its position in the DataFrame
pbp_schedule_row(rooms, sessions, placed, x) ==
  LET session == sessions[x[1] + 1]
      slot == pbp_time_slots[x[3] + 1]
      end_slot == pbp_time_slots[x[3] + session.duration_slots]
  IN [index |-> Cardinality({y \in placed : pbp_precedes(rooms, y, x)}),
      block |-> session.block,
      Course |-> session.course_code,
      Component |-> session.component,
      Day |-> slot.day_idx,
      Start |-> 60 * slot.hour + slot.minute,
      End |-> IF end_slot.minute + 30 >= 60 THEN 60 * (end_slot.hour + 1)
              ELSE 60 * end_slot.hour + end_slot.minute + 30,
      Room |-> x[2]]

\* new_occupied: the (room, slot) pairs of the variables with value 1
pbp_new_occupied(sessions, placed) ==
  UNION {{<<x[2], s>> : s \in pbp_slot_occ(sessions, x[1], x[3])} : x \in placed}

PBPFrame == UNCHANGED <<opt, call, greedy, hier, prog, yrs, seq>>

\* the head of the loop body up to the solver call: reserved slots,
\* sessions, variables, constraints
PBPBuild ==
  /\ pc = "pbp_loop"
  /\ pbp.prog_idx < Len(pbp.self.programs)
  /\ \E reserved \in {calculate_reserved_lab_slots(pbp.self,
                        SubSeq(pbp.self.programs, pbp.prog_idx + 2, Len(pbp.self.programs)))} :
     \E sessions \in {pbp_generate_sessions(pbp.self, pbp.self.programs[pbp.prog_idx + 1])} :
     \E X \in {pbp_build_X(pbp.self, sessions, reserved)} :
       /\ X # {}
       /\ \A n \in 1..Len(sessions) : XVarsOf(X, sessions[n].id) # {}
       /\ pbp' = [pbp EXCEPT !.reserved_lab_slots = reserved,
                             !.sessions = sessions,
                             !.X = X]
       /\ model' = pbp_constraints(sessions, X)
       /\ order' = [n \in 1..Len(sessions) |-> XVarsOf(X, sessions[n].id)]
  /\ trail' = {}
  /\ cursor' = 0
  /\ value1' = {}
  /\ pc' = "solving"
  /\ UNCHANGED status
  /\ PBPFrame

\* no variable at all, or a session without a variable: _solve_* returns
\* False and solve_all_programs returns (False, {'error': ...})
PBPCannotAssign ==
  /\ pc = "pbp_loop"
  /\ pbp.prog_idx < Len(pbp.self.programs)
  /\ \E reserved \in {calculate_reserved_lab_slots(pbp.self,
                        SubSeq(pbp.self.programs, pbp.prog_idx + 2, Len(pbp.self.programs)))} :
     \E sessions \in {pbp_generate_sessions(pbp.self, pbp.self.programs[pbp.prog_idx + 1])} :
     \E X \in {pbp_build_X(pbp.self, sessions, reserved)} :
       /\ X = {} \/ \E n \in 1..Len(sessions) : XVarsOf(X, sessions[n].id) = {}
       /\ pbp' = [pbp EXCEPT !.reserved_lab_slots = reserved,
                             !.sessions = sessions,
                             !.X = X,
                             !.result = [success |-> FALSE,
                                         error |-> pbp.self.programs[pbp.prog_idx + 1]]]
  /\ pc' = "pbp_done"
  /\ UNCHANGED <<model, value1, status, order, trail, cursor>>
  /\ PBPFrame

\* the solver hands back an assignment (OPTIMAL or FEASIBLE): rows and
\* occupied slots are stored and the loop goes on
PBPSolved ==
  /\ pc = "solving"
  /\ cursor = Len(order)
  /\ Feasible(model, trail)
  /\ value1' = trail
  /\ \E st \in {"Optimal", "Feasible"} :
       /\ status' = st
       /\ pbp' = [pbp EXCEPT
            !.self.occupied_slots = @ \cup pbp_new_occupied(pbp.sessions, Placed(trail)),
            !.self.all_schedules =
               Append(@, {pbp_schedule_row(pbp.self.rooms_df, pbp.sessions, Placed(trail), x) :
                            x \in Placed(trail)}),
            !.self.program_stats =
               Append(@, [program |-> pbp.self.programs[pbp.prog_idx + 1],
                          components |-> Len(pbp.sessions),
                          status |-> st]),
            !.prog_idx = @ + 1]
  /\ pc' = "pbp_loop"
  /\ UNCHANGED <<model, order, trail, cursor>>
  /\ PBPFrame

\* the solver hands back no assignment (time limit, or infeasible):
\* _solve_* returns False and solve_all_programs returns (False, ...)
PBPNotSolved ==
  /\ pc = "solving"
  /\ cursor = 0
  /\ status' = "NotSolved"
  /\ pbp' = [pbp EXCEPT !.result = [success |-> FALSE,
                                    error |-> pbp.self.programs[pbp.prog_idx + 1]]]
  /\ pc' = "pbp_done"
  /\ UNCHANGED <<model, value1, order, trail, cursor>>
  /\ PBPFrame

\* after the last program solve_all_programs returns (True, stats) and
\* solve_pbp exports the rows of all_schedules
PBPReturn ==
  /\ pc = "pbp_loop"
  /\ pbp.prog_idx = Len(pbp.self.programs)
  /\ pbp' = [pbp EXCEPT
       !.result = [success |-> TRUE, programs |-> pbp.self.program_stats],
       !.exported = UNION {pbp.self.all_schedules[n] : n \in 1..Len(pbp.self.all_schedules)}]
  /\ pc' = "pbp_done"
  /\ UNCHANGED <<model, value1, status, order, trail, cursor>>
  /\ PBPFrame

NextPBP ==
  \/ PBPBuild
  \/ PBPCannotAssign
  \/ SolverBranch
  \/ PBPSolved
  \/ PBPNotSolved
  \/ PBPReturn

\* the three tables read by PBPScheduler.__init__ and the semester
ProgramInstance(courses, enrollment, rooms, semester) ==
  [courses |-> courses, enrollment |-> enrollment, rooms |-> rooms, semester |-> semester]

\* two programs and one room large enough for their blocks, a lab; the
\* second-year block takes a one-hour lecture course
TwoPrograms ==
  ProgramInstance(
    << ProgramCourse("IT 111", "BSIT", 1, 1, 2, 3), ProgramCourse("IS 101", "BSIS", 1, 1, 0, 3),
       ProgramCourse("IT 222", "BSIT", 2, 2, 3, 0), ProgramCourse("IT 105", "BSIT", 2, 1, 1, 0) >>,
    << Cohort("BSIS", 1, "A", 30), Cohort("BSIT", 1, "A", 30), Cohort("BSIT", 2, "A", 30) >>,
    << Room("R201", 10, "non-lab"), Room("LAB1", 40, "lab") >>, 1)

\* two lab rooms, the first too small for any block; BSIT alone fills the
\* large one, BSIS alone fits it, both together do not
LabShortage ==
  ProgramInstance(
    << ProgramCourse("IT 128", "BSIT", 1, 1, 0, 3), ProgramCourse("IS 104", "BSIS", 1, 1, 0, 3) >>,
    << Cohort("BSIT", 1, "A", 40), Cohort("BSIT", 1, "B", 40), Cohort("BSIS", 1, "A", 40) >>,
    << Room("LAB1", 20, "lab"), Room("LAB2", 40, "lab"), Room("R201", 40, "non-lab") >>, 1)

\* the larger program has a block that fits no room
FirstProgramFails ==
  ProgramInstance(
    << ProgramCourse("IT 111", "BSIT", 1, 1, 2, 0), ProgramCourse("IS 101", "BSIS", 1, 1, 2, 0) >>,
    << Cohort("BSIT", 1, "A", 50), Cohort("BSIT", 2, "A", 30), Cohort("BSIS", 1, "A", 30) >>,
    << Room("R201", 40, "non-lab"), Room("LAB1", 40, "lab") >>, 1)

PBPInputs == {TwoPrograms, LabShortage, FirstProgramFails}

InitPBP ==
  /\ pc = "pbp_loop"
  /\ opt = Null
  /\ model = {}
  /\ value1 = {}
  /\ status = "none"
  /\ order = <<>>
  /\ trail = {}
  /\ cursor = 0
  /\ call = Null
  /\ greedy = Null
  /\ hier = Null
  /\ prog = Null
  /\ yrs = Null
  /\ seq = Null
  /\ pbp \in {[self |-> PBPScheduler(in.courses, in.enrollment, in.rooms, in.semester, programs),
               prog_idx |-> 0,
               reserved_lab_slots |-> {},
               sessions |-> <<>>,
               X |-> {},
               result |-> Null,
               exported |-> {}] :
                <<in, programs>> \in {q \in PBPInputs \X UNION {ProgramOrders(i.enrollment) : i \in PBPInputs} :
                                        q[2] \in ProgramOrders(q[1].enrollment)}}

SpecPBP == InitPBP /\ [][NextPBP]_vars

\* the (room, slot) pairs a variable key covers
PBPSlotsOf(x) ==
  {<<x[2], s>> : s \in x[3]..(x[3] + pbp.sessions[x[1] + 1].duration_slots - 1)}

\* no variable of the program being solved touches an occupied or reserved pair
NoVariableOnTakenSlot ==
  pc = "solving" =>
    /\ \A x \in pbp.X :
         PBPSlotsOf(x) \cap (pbp.self.occupied_slots \cup pbp.reserved_lab_slots) = {}
    /\ Placed(trail) \subseteq pbp.X

\* the rows of all programs stored so far, each with the number of its program
CombinedRows ==
  UNION {{<<n, r>> : r \in pbp.self.all_schedules[n]} :
           n \in 1..Len(pbp.self.all_schedules)}

RowsOverlap(r, q) ==
  r.Room = q.Room /\ r.Day = q.Day /\ r.Start < q.End /\ q.Start < r.End

CombinedScheduleHasNoDoubleBooking ==
  \A a, b \in CombinedRows : a # b => ~RowsOverlap(a[2], b[2])

\* a successful solve adds exactly the pairs its assignments cover
OccupiedGrowsByAssignments ==
  [][(pc = "solving" /\ pc' = "pbp_loop") =>
       /\ Placed(value1') \subseteq pbp.X
       /\ pbp'.self.occupied_slots =
            pbp.self.occupied_slots \cup UNION {PBPSlotsOf(x) : x \in Placed(value1')}
       /\ Len(pbp'.self.all_schedules) = Len(pbp.self.all_schedules) + 1
       /\ Cardinality(pbp'.self.all_schedules[Len(pbp'.self.all_schedules)])
            = Cardinality(Placed(value1'))]_vars

\* C13: the variables of the program being solved avoid every (room, slot)
\* occupied by an earlier program or reserved for a later one, a solved
\* program adds exactly the slots of its assignments to the occupied set,
\* and no two rows of the combined schedule share a room and a time.
C13_ProgramsNeverCollide ==
  /\ [](NoVariableOnTakenSlot /\ CombinedScheduleHasNoDoubleBooking)
  /\ OccupiedGrowsByAssignments

\* both programs solved and exported; the second one holds the 8:00 lab
\* block that was reserved for it while the first was solved around it in
\* the same room
C13_Witness ==
  /\ pc = "pbp_done"
  /\ pbp.result # Null
  /\ pbp.result.success
  /\ Len(pbp.self.all_schedules) = 2
  /\ \E r \in pbp.self.all_schedules[2] :
       /\ r.Room = "LAB1" /\ r.Day = 0 /\ r.Start = 480 /\ r.End = 660
       /\ <<1, r>> \notin CombinedRows
  /\ \E r \in pbp.self.all_schedules[1] : r.Room = "LAB1" /\ r.Start >= 660
  /\ pbp.exported = {a[2] : a \in CombinedRows}

\* can sessions n.. be given one variable of X each, no two of them sharing
\* a (room, slot) or a (block, slot) with each other or with those taken?
RECURSIVE CanComplete(_, _, _, _, _)
CanComplete(sessions, X, n, room_slots, block_slots) ==
  IF n > Len(sessions) THEN TRUE
  ELSE \E x \in {y \in X : y[1] = sessions[n].id} :
         LET rs == {<<x[2], t>> : t \in pbp_slot_occ(sessions, x[1], x[3])}
             bs == {<<sessions[n].block, t>> : t \in pbp_slot_occ(sessions, x[1], x[3])}
         IN /\ rs \cap room_slots = {}
            /\ bs \cap block_slots = {}
            /\ CanComplete(sessions, X, n + 1, room_slots \cup rs, block_slots \cup bs)

\* the scheduler as it was constructed: nothing occupied
Fresh(self) == [self EXCEPT !.occupied_slots = {}]

\* the sessions of several programs in one list
JointSessions(self, programs) ==
  LET made == Flatten([n \in 1..Len(programs) |-> pbp_generate_sessions(self, programs[n])])
  IN [n \in 1..Len(made) |-> [made[n] EXCEPT !.id = n - 1]]

\* the sessions fit the rooms when nothing is occupied or reserved
FitsEmptyRooms(self, sessions) ==
  CanComplete(sessions, pbp_build_X(Fresh(self), sessions, {}), 1, {}, {})

\* the model the loop is about to build for the next program has a solution
NextProgramSolvable ==
  LET program == pbp.self.programs[pbp.prog_idx + 1]
      sessions == pbp_generate_sessions(pbp.self, program)
      reserved == calculate_reserved_lab_slots(pbp.self,
                    SubSeq(pbp.self.programs, pbp.prog_idx + 2, Len(pbp.self.programs)))
  IN CanComplete(sessions, pbp_build_X(pbp.self, sessions, reserved), 1, {}, {})

\* about to solve a program after a larger one was solved, both with lab
\* sessions
SmallerProgramNext ==
  /\ pc = "pbp_loop"
  /\ pbp.prog_idx >= 1
  /\ pbp.prog_idx < Len(pbp.self.programs)
  /\ ProgramSize(pbp.self.enrollment_df, pbp.self.programs[pbp.prog_idx])
       > ProgramSize(pbp.self.enrollment_df, pbp.self.programs[pbp.prog_idx + 1])
  /\ \E r \in pbp.self.all_schedules[pbp.prog_idx] : r.Component[2] = "LAB"
  /\ \E n \in 1..Len(pbp_generate_sessions(pbp.self, pbp.self.programs[pbp.prog_idx + 1])) :
       pbp_generate_sessions(pbp.self, pbp.self.programs[pbp.prog_idx + 1])[n].room_type = "lab"

\* the smaller program fits the empty rooms, the programs up to it together
\* do not
FitsAloneNotTogether ==
  /\ FitsEmptyRooms(pbp.self,
       pbp_generate_sessions(pbp.self, pbp.self.programs[pbp.prog_idx + 1]))
  /\ ~FitsEmptyRooms(pbp.self,
        JointSessions(pbp.self, SubSeq(pbp.self.programs, 1, pbp.prog_idx + 1)))

ProgramFails == PBPCannotAssign \/ PBPNotSolved

\* C15: when the solve of a program fails the run goes on to the remaining
\* programs; at its end every program was attempted and the schedules of
\* the programs that were solved are exported.
C15_FailedProgramIsSkipped ==
  /\ [][ProgramFails => pc' = "pbp_loop" /\ pbp'.prog_idx = pbp.prog_idx + 1]_vars
  /\ [](pc = "pbp_done" =>
          /\ pbp.prog_idx = Len(pbp.self.programs)
          /\ pbp.exported = {a[2] : a \in CombinedRows})

\* the components the inputs imply: one per course, block of the course's
\* program and year, and session type with hours
ImpliedComponents(self) ==
  UNION {{<<self.courses_df[c].code, type,
            <<self.enrollment_df[e].program, self.courses_df[c].year, self.enrollment_df[e].block>> >> :
            type \in {t \in {"LEC", "LAB"} :
                        \/ t = "LEC" /\ self.courses_df[c].lec_hours > 0
                        \/ t = "LAB" /\ self.courses_df[c].lab_hours > 0}} :
           <<c, e>> \in {q \in (1..Len(self.courses_df)) \X (1..Len(self.enrollment_df)) :
                           /\ self.enrollment_df[q[2]].program = self.courses_df[q[1]].program
                           /\ self.enrollment_df[q[2]].year = self.courses_df[q[1]].year}}

\* the components with a row in the exported schedule
ScheduledComponents == {r.Component : r \in pbp.exported}

\* the components the returned error speaks for: those of the program it names
ReportedComponents ==
  IF pbp.result.success THEN {}
  ELSE {c \in ImpliedComponents(pbp.self) : c[3][1] = pbp.result.error}

\* C16: at the end of a run every component implied by the inputs is either
\* in the output schedule or reported as unscheduled, and not both.
C16_EveryComponentAccounted ==
  pc = "pbp_done" =>
    \A c \in ImpliedComponents(pbp.self) :
      (c \in ScheduledComponents) # (c \in ReportedComponents)

\* room_category of the room with the given id
CategoryOf(self, room_id) ==
  self.rooms_df[Min({r \in 1..Len(self.rooms_df) : self.rooms_df[r].room_id = room_id})].room_category

\* C20: in the program-sliced strategy a lecture session has variables only
\* in non-lab rooms and a lab session only in lab rooms, so that no stored
\* row puts a lecture in a lab room.
C20_LecturesOnlyInNonLabRooms ==
  /\ pc = "solving" =>
       \A x \in pbp.X :
         (pbp.sessions[x[1] + 1].room_type = "lab") = (CategoryOf(pbp.self, x[2]) = "lab")
  /\ \A a \in CombinedRows :
       a[2].Component[2] = "LEC" => CategoryOf(pbp.self, a[2].Room) # "lab"

\* what build_model prints about missing variables: one warning, when no
\* assignment variable exists at all; it names no component
build_warnings(o) ==
  IF o.X = {}
    THEN {[text |-> "WARNING: No session assignment variables (X) were created.",
           components |-> {}]}
    ELSE {}

\* the components each of whose patterns has a session without a variable
UnplaceableComponents(o) ==
  {c \in SeqRange(o.course_components) :
     \A p \in PatternsOfComponent(o.patterns, c.id) :
       \E s \in SeqRange(o.sessions) : s.pattern_id = p.id /\ XVarsOf(o.X, s.id) = {}}

\* C17: when every pattern of a component has a session without any
\* feasible (room, start), building and solving names that component as
\* infeasible, beyond the solver's status.
C17_InfeasibleComponentNamed ==
  pc = "infeasible" =>
    \A c \in UnplaceableComponents(opt) :
      \E w \in build_warnings(opt) : c.id \in w.components


(***************************************************************************)
(* Preprocessor, first step: _remove_dominated_patterns.                   *)
(***************************************************************************)
\* self.valid_starts[session_id]: _add_constraints computes it over the whole
\* of self.K, whichever part of K the solution space is explored on
self_valid_starts(s) == ValidStarts(AllK, s.duration_slots, s.day_pattern)

\* variant: every pattern scores 0
calculate_pattern_flexibility_Zero(o, session_ids) == <<0, 1>>

\* total_options / len(sessions), kept as the pair <<numerator, denominator>>
calculate_pattern_flexibility(o, session_ids) ==
  LET total_options[n \in 0..Len(session_ids)] ==
        IF n = 0 THEN 0
        ELSE total_options[n - 1]
               + Cardinality(self_valid_starts(o.sessions[session_ids[n] + 1]))
  IN IF session_ids = <<>> THEN <<0, 1>>
     ELSE <<total_options[Len(session_ids)], Len(session_ids)>>

\* the metrics dict of one pattern
pattern_metrics(o, p) ==
  LET session_ids == SessionsOfPattern(o.sessions, p.id)
      total_duration[n \in 0..Len(session_ids)] ==
        IF n = 0 THEN 0
        ELSE total_duration[n - 1] + o.sessions[session_ids[n] + 1].duration_slots
  IN [pattern |-> p.id,
      num_sessions |-> Len(session_ids),
      total_duration |-> total_duration[Len(session_ids)],
      flexibility_score |-> calculate_pattern_flexibility(o, session_ids)]

\* variant: the flexibility scores are not compared
Dominates_WithoutFlexibility(metrics_j, metrics_i) ==
  /\ metrics_j.num_sessions < metrics_i.num_sessions
  /\ metrics_j.total_duration <= metrics_i.total_duration

\* "pattern j dominates pattern i"
Dominates(metrics_j, metrics_i) ==
  /\ metrics_j.num_sessions < metrics_i.num_sessions
  /\ metrics_j.total_duration <= metrics_i.total_duration
  /\ metrics_j.flexibility_score[1] * metrics_i.flexibility_score[2]
       >= metrics_i.flexibility_score[1] * metrics_j.flexibility_score[2]

\* the ids collected in dominated_patterns, over all components
dominated_patterns(o) ==
  {p.id : p \in {q \in SeqRange(o.patterns) :
                   \E r \in PatternsOfComponent(o.patterns, q.component_id) :
                     /\ r.id # q.id
                     /\ Dominates(pattern_metrics(o, r), pattern_metrics(o, q))}}

\* the optimizer after the removal loop: Y and X lose the removed patterns
remove_dominated_patterns(o) ==
  LET removed == dominated_patterns(o) \cap o.Y
  IN [o EXCEPT !.Y = @ \ removed,
               !.X = {x \in @ : o.sessions[x[1] + 1].pattern_id \notin removed}]

\* self.model.remove(var): the variable leaves every constraint
ModelWithout(cons, gone) ==
  {[c EXCEPT !.pos = @ \ gone, !.neg = @ \ gone] : c \in cons}

\* the variables of the optimizer
VariablesOf(o) == {YVar(p) : p \in o.Y} \cup {XVar(x[1], x[2], x[3]) : x \in o.X}

\* every assignment the solver's search can hand back from a branch
RECURSIVE Completions(_, _, _, _)
Completions(blocks, cons, n, ones) ==
  IF n = Len(blocks)
    THEN IF Feasible(cons, ones) THEN {ones} ELSE {}
    ELSE \* bound once: block, undecided rest, constraints touching the block
         LET env == <<blocks[n + 1], Undecided(blocks, n + 1)>>
         IN UNION {Completions(blocks, cons, n + 1, ones \cup S) :
                     S \in {T \in SubsetsUpTo(env[1], MaxPerBlock) :
                              \A c \in {d \in cons : (d.pos \cup d.neg) \cap env[1] # {}} :
                                Possible(c, ones \cup T, env[2])}}

SolutionsOf(o, cons) ==
  Completions(BlocksOf(o.course_components, o.patterns, o.sessions, o.Y, o.X),
              cons, 0, {})

\* the largest number of components a solution of the model schedules
MaxScheduled(o, cons) ==
  Max({Cardinality({v \in ones : v[1] = "Y"}) : ones \in SolutionsOf(o, cons)} \cup {0})

\* one course with a two-session and a one-session lecture pattern on a
\* single room that three other cohorts need for one long session each
PruneCrowded ==
  Instance(<< Course("IT 128", 1, 1, 2, 1), Course("PathFit 3", 2, 1, 2, 0) >>,
           << Cohort("BSIT", 1, "A", 20), Cohort("BSIT", 2, "A", 20),
              Cohort("BSIT", 2, "B", 20), Cohort("BSIS", 2, "A", 20) >>,
           << Room("R101", 30, "non-lab") >>, 1, ShortWeek)

\* the lecture patterns of a course with a laboratory, on every day
PruneLecLab ==
  Instance(<< Course("IT 128", 1, 1, 2, 1) >>, << Cohort("BSIT", 1, "A", 20) >>,
           << Room("R101", 30, "non-lab") >>, 1, K)

\* the patterns of a pure lecture course, on the first days of the week
PruneLecture ==
  Instance(<< Course("GEC 1", 1, 1, 3, 0) >>, << Cohort("BSIT", 1, "A", 20) >>,
           << Room("R101", 30, "non-lab") >>, 1, ShortWeek)

\* the patterns of a laboratory, on the first days of the week
PruneLab ==
  Instance(<< Course("IT 115", 1, 1, 0, 1) >>, << Cohort("BSIT", 1, "A", 20) >>,
           << Room("LAB1", 30, "lab") >>, 1, ShortWeek)

PreInstances == {PruneCrowded, PruneLecLab, PruneLecture, PruneLab}

InitPre ==
  /\ pc = "built"
  /\ opt \in {build_model(in) : in \in PreInstances}
  /\ model = opt.constraints
  /\ value1 = {}
  /\ status = "none"
  /\ order = <<>>
  /\ trail = {}
  /\ cursor = 0
  /\ call = Null
  /\ greedy = Null
  /\ hier = Null
  /\ prog = Null
  /\ yrs = Null
  /\ pbp = Null
  /\ seq = Null

\* preprocess_model, step [1]
RemoveDominated ==
  /\ pc = "built"
  /\ pc' = "pruned"
  /\ opt' = remove_dominated_patterns(opt)
  /\ model' = ModelWithout(model, VariablesOf(opt) \ VariablesOf(opt'))
  /\ UNCHANGED <<value1, status, order, trail, cursor, locals>>

(***************************************************************************)
(* preprocess_model, steps [2] and [3].                                    *)
(***************************************************************************)
\* the tests of _fix_infeasible_assignments for the variable X[i, j, k]
MustBeZero(o, x) ==
  LET session == o.sessions[x[1] + 1]
      end_slot_idx == x[3] + session.duration_slots - 1
  IN \/ session.students > room_capacity(o.in.rooms, o.in.rooms[x[2] + 1].room_id)
     \/ end_slot_idx >= NumSlots
     \/ time_slots[x[3]].day # time_slots[end_slot_idx].day
     \/ \E offset \in 0..(session.duration_slots - 1) :
          /\ x[3] + offset < NumSlots
          /\ time_slots[x[3] + offset].start >= Noon
          /\ time_slots[x[3] + offset].end <= Noon + 60

\* the constraints var == 0 that _fix_infeasible_assignments adds
fix_infeasible_assignments(o) ==
  {Constraint("Fixed", x[1], x[2], x[3], 0, {XVar(x[1], x[2], x[3])}, {}, "eq", 0) :
     x \in {y \in o.X : MustBeZero(o, y)}}

FixInfeasible ==
  /\ pc = "pruned"
  /\ pc' = "fixed"
  /\ model' = model \cup fix_infeasible_assignments(opt)
  /\ UNCHANGED <<opt, value1, status, order, trail, cursor, locals>>

\* the strings of the instances, in the order Python compares them
StringsInOrder ==
  <<"A", "B", "BSIS", "BSIT", "GEC 1", "IS 404", "IT 111", "IT 115", "IT 128",
    "NSTP 1", "PathFit 1", "PathFit 3">>

StrRank(s) == CHOOSE n \in 1..Len(StringsInOrder) : StringsInOrder[n] = s

\* (program, year, block, course_code) of s sorts before that of t
SortKeyLess(s, t) ==
  \/ StrRank(s.program) < StrRank(t.program)
  \/ /\ s.program = t.program
     /\ \/ s.year < t.year
        \/ /\ s.year = t.year
           /\ \/ StrRank(s.block) < StrRank(t.block)
              \/ /\ s.block = t.block
                 /\ StrRank(s.course_code) < StrRank(t.course_code)

identical_key(s) == <<s.session_type, s.duration_slots, s.students, s.room_category>>

\* _find_identical_sessions: the groups of more than one session, in the
\* order of dict insertion, each group in the order of self.sessions
find_identical_sessions(sessions) ==
  LET first == {n \in 1..Len(sessions) :
                  \A m \in 1..(n - 1) : identical_key(sessions[m]) # identical_key(sessions[n])}
      group(n) == SelectSeq(sessions, LAMBDA s : identical_key(s) = identical_key(sessions[n]))
      groups == [n \in 1..Len(sessions) |-> IF n \in first THEN <<group(n)>> ELSE <<>>]
  IN SelectSeq(Flatten(groups), LAMBDA g : Len(g) > 1)

\* sorted(session_group, key=...), a stable sort
sorted_sessions(session_group) ==
  LET before(n) == {m \in 1..Len(session_group) :
                      \/ SortKeyLess(session_group[m], session_group[n])
                      \/ /\ ~SortKeyLess(session_group[n], session_group[m])
                         /\ m < n}
  IN [r \in 1..Len(session_group) |->
        session_group[CHOOSE n \in 1..Len(session_group) : Cardinality(before(n)) = r - 1]]

\* the pairs (curr_session, next_session) of the loops, in loop order
SymmetryPairs(o) ==
  LET groups == find_identical_sessions(o.sessions)
  IN Flatten([g \in 1..Len(groups) |->
                LET sorted == sorted_sessions(groups[g])
                IN [idx \in 1..(Len(sorted) - 1) |-> <<sorted[idx], sorted[idx + 1]>>]])

\* curr_assignments[:5]: the first five keys of X for session i, in the order
\* build_model inserted them (room by room, start by start)
FirstAssignments(X, i) ==
  LET mine == {x \in X : x[1] = i}
      earlier(x) == {y \in mine : y[2] < x[2] \/ (y[2] = x[2] /\ y[3] < x[3])}
  IN {x \in mine : Cardinality(earlier(x)) < 5}

\* the constraints the inner loop adds for one pair, in the order added;
\* all of them carry the name Symmetry_Break_<curr id>_<next id>
PairConstraints(o, pair) ==
  LET curr == pair[1].id
      next == pair[2].id
      firsts == FirstAssignments(o.X, curr)
      nth(n) == CHOOSE x \in firsts :
                  Cardinality({y \in firsts : y[2] < x[2] \/ (y[2] = x[2] /\ y[3] < x[3])}) = n - 1
  IN IF XVarsOf(o.X, curr) = {} \/ XVarsOf(o.X, next) = {} THEN <<>>
     ELSE [n \in 1..Cardinality(firsts) |->
             Constraint("Symmetry_Break", curr, next, 0, 0,
                        {XVar(nth(n)[1], nth(n)[2], nth(n)[3])}, XVarsOf(o.X, next), "le", 0)]

\* the first pair for which a second constraint of one name is added
RepeatedName(o) ==
  LET pairs == SymmetryPairs(o)
  IN {n \in 1..Len(pairs) :
        /\ Len(PairConstraints(o, pairs[n])) > 1
        /\ \A m \in 1..(n - 1) : Len(PairConstraints(o, pairs[m])) <= 1}

\* LpProblem.constraints is a dict by name: of the constraints of one name
\* the last one added stays
symmetry_breaking_constraints(o) ==
  LET pairs == SymmetryPairs(o)
  IN {PairConstraints(o, pairs[n])[Len(PairConstraints(o, pairs[n]))] :
        n \in {m \in 1..Len(pairs) : PairConstraints(o, pairs[m]) # <<>>}}

\* the constraints in the model when the name is refused the second time
constraints_before_error(o) ==
  LET pairs == SymmetryPairs(o)
  IN {PairConstraints(o, pairs[n])[1] :
        n \in {m \in 1..Len(pairs) :
                 /\ PairConstraints(o, pairs[m]) # <<>>
                 /\ \A r \in RepeatedName(o) : m <= r}}

\* step [3] returns: no name is used twice, or the LpProblem accepts a name
\* again (noOverlap unset) and replaces the constraint
SymmetryBreakReturns ==
  /\ pc = "fixed"
  /\ pc' = "symmetric"
  /\ model' = model \cup symmetry_breaking_constraints(opt)
  /\ UNCHANGED <<opt, value1, status, order, trail, cursor, locals>>

\* step [3] raises PulpError: the LpProblem refuses a name used before
SymmetryBreakRaises ==
  /\ pc = "fixed"
  /\ RepeatedName(opt) # {}
  /\ pc' = "pre_raised"
  /\ model' = model \cup constraints_before_error(opt)
  /\ UNCHANGED <<opt, value1, status, order, trail, cursor, locals>>

\* solve(), called with or without the preprocessing
SolvePre ==
  /\ pc \in {"built", "pruned", "symmetric"}
  /\ pc' = "solving"
  /\ order' = BlocksOf(opt.course_components, opt.patterns, opt.sessions, opt.Y, opt.X)
  /\ trail' = {}
  /\ cursor' = 0
  /\ UNCHANGED <<opt, model, value1, status, locals>>

ReturnPre == SolverReturn("solved")

NextPre ==
  \/ RemoveDominated
  \/ FixInfeasible
  \/ SymmetryBreakReturns
  \/ SymmetryBreakRaises
  \/ SolvePre
  \/ SolverBranch
  \/ ReturnPre

SpecPre == InitPre /\ [][NextPre]_vars

\* a component of the instance has a pattern with fewer sessions and no
\* longer total duration than a sibling: only the flexibility score decides
HasDominanceCandidate(o) ==
  \E p, q \in SeqRange(o.patterns) :
    /\ p.component_id = q.component_id
    /\ pattern_metrics(o, p).num_sessions < pattern_metrics(o, q).num_sessions
    /\ pattern_metrics(o, p).total_duration <= pattern_metrics(o, q).total_duration

\* C18: after _remove_dominated_patterns the model has the same maximum
\* number of scheduled components as the model build_model made, and it is
\* feasible whenever that model was.
C18_PruningKeepsOptimum ==
  pc = "pruned" =>
    LET before == build_model(opt.in)
    IN /\ MaxScheduled(opt, model) = MaxScheduled(before, before.constraints)
       /\ SolutionsOf(before, before.constraints) # {} => SolutionsOf(opt, model) # {}

C18_Witness ==
  /\ pc = "pruned"
  /\ HasDominanceCandidate(build_model(opt.in))
  /\ opt.in = PruneCrowded
  /\ MaxScheduled(opt, model) = Len(opt.course_components)
  /\ Len(opt.course_components) = 4


(***************************************************************************)
(* export_schedule and get_full_schedule_df: the rows of a solved          *)
(* optimizer.  A text cell is the sequence of its pieces; a Time cell is   *)
(* the sequence of its lines, each <<start, end>> in minutes (the source   *)
(* compares zero-padded "HH:MM" strings, which order as the minutes do).   *)
(***************************************************************************)
\* str.capitalize on a room category
capitalize(room_category) ==
  IF room_category = "non-lab" THEN "Non-lab"
  ELSE IF room_category = "lab" THEN "Lab"
  ELSE room_category

\* f"{room_id} ({room_category})"
room_display(rooms, room_id) ==
  <<room_id, " (", capitalize(rooms[Min(RowsOf(rooms, room_id))].room_category), ")">>

\* "\n".join(lines)
JoinLines(lines) ==
  Flatten([n \in 1..Len(lines) |-> IF n = 1 THEN lines[n] ELSE <<"\n">> \o lines[n]])

\* the characters of a day name
DayChars(d) == IF d = "TH" THEN <<"T", "H">> ELSE <<d>>

\* "".join(sorted(keys, key=self.days.index)) for the day names `used`,
\* already in the order of self.days
JoinDays(used) == Flatten([n \in 1..Len(used) |-> DayChars(used[n])])

\* the last of a set of variable keys in the insertion order of self.X
LastKey(S) ==
  CHOOSE a \in S : \A b \in S :
    \/ b[1] < a[1]
    \/ (b[1] = a[1] /\ b[2] < a[2])
    \/ (b[1] = a[1] /\ b[2] = a[2] /\ b[3] <= a[3])

\* the row of one component: time_room_by_day keeps one entry per day
schedule_row(o, ones, comp_id) ==
  LET assignments == {a \in Placed(ones) : o.sessions[a[1] + 1].component_id = comp_id}
      on(d) == {a \in assignments : time_slots[a[3]].day = d}
      used == SelectSeq(days, LAMBDA d : on(d) # {})
      entry(d) == LET a == LastKey(on(d))
                      end_slot_idx == a[3] + o.sessions[a[1] + 1].duration_slots - 1
                  IN [time |-> <<time_slots[a[3]].start, time_slots[end_slot_idx].end>>,
                      room |-> room_display(o.in.rooms, o.in.rooms[a[2] + 1].room_id)]
  IN [Course |-> o.course_components[comp_id + 1].course_code,
      Component |-> comp_id,
      Time |-> [n \in 1..Len(used) |-> entry(used[n]).time],
      Days |-> JoinDays(used),
      Room |-> JoinLines([n \in 1..Len(used) |-> entry(used[n]).room])]

export_schedule(o, ones, program, year, block) ==
  {schedule_row(o, ones, c.id) :
     c \in {d \in SeqRange(o.course_components) :
              /\ \E a \in Placed(ones) : o.sessions[a[1] + 1].component_id = d.id
              /\ d.program = program /\ d.year = year /\ d.block = block}}

get_full_schedule_df(o, ones) ==
  UNION {export_schedule(o, ones, e.program, e.year, e.block) :
           e \in SeqRange(o.in.enrollment)}

(***************************************************************************)
(* _time_str_to_slots and _add_existing_schedule_constraints.              *)
(***************************************************************************)
\* `sub in s` on sequences of characters
Contains(s, sub) ==
  \E n \in 1..(Len(s) - Len(sub) + 1) : SubSeq(s, n, n + Len(sub) - 1) = sub

\* time_str.split('-') yields two parts only when the cell has one line;
\* any other cell raises ValueError in the unpacking and gives no slot
time_str_to_slots(time_str, days_str) ==
  IF Len(time_str) # 1 THEN {}
  ELSE LET start_str == time_str[1][1]
           end_str == time_str[1][2]
           dys == {d \in {"M", "W", "F"} : Contains(days_str, <<d>>)}
                    \cup (IF Contains(days_str, <<"T">>) /\ ~Contains(days_str, <<"T", "H">>)
                            THEN {"T"} ELSE {})
                    \cup (IF Contains(days_str, <<"T", "H">>) THEN {"TH"} ELSE {})
       IN {k \in AllK : /\ time_slots[k].day \in dys
                        /\ time_slots[k].start >= start_str
                        /\ time_slots[k].end <= end_str}

\* room_to_idx looked up with the Room cell: the indices whose room id is
\* the cell itself
RoomKeyOf(rooms, cell) ==
  {j \in RoomIndices(rooms) : cell = <<rooms[j + 1].room_id>>}

\* the set occupied_room_slots after the loop over the rows
existing_room_slots(rooms, existing_schedule) ==
  UNION {IF RoomKeyOf(rooms, row.Room) = {} \/ row.Time = <<>> \/ row.Days = <<>>
           THEN {}
           ELSE {<<Max(RoomKeyOf(rooms, row.Room)), slot_id>> :
                   slot_id \in time_str_to_slots(row.Time, row.Days)} :
         row \in existing_schedule}

\* the constraints `var == 0` added for the new sessions
ExistingScheduleConstraints(o, occupied) ==
  {Constraint("ExistingScheduleConflict", x[1], x[2], x[3], 0,
              {XVar(x[1], x[2], x[3])}, {}, "eq", 0) :
     x \in {y \in o.X : \E slot \in slot_occupation(o.sessions, y[1], y[3]) :
                          <<y[2], slot>> \in occupied}}

(***************************************************************************)
(* SchedulerGUI._run_sequential_optimization: IT first, then IS with the   *)
(* rows of IT as existing_schedule.                                        *)
(***************************************************************************)
\* the enrollment rows kept by program_filter
ProgramFilter(in, program_filter) ==
  [in EXCEPT !.enrollment = SelectSeq(@, LAMBDA e : e.program \in program_filter)]

\* both programs on one lecture room
SeqOneRoom ==
  Instance(<< Course("IT 128", 1, 1, 2, 1), Course("PathFit 1", 1, 1, 2, 0) >>,
           << Cohort("IT", 1, "A", 20), Cohort("IS", 1, "A", 20) >>,
           << Room("R101", 30, "non-lab") >>, 1, ShortWeek)

\* a laboratory course, two rooms
SeqLab ==
  Instance(<< Course("IT 115", 1, 1, 0, 1) >>,
           << Cohort("IT", 1, "A", 20), Cohort("IS", 1, "A", 20) >>,
           << Room("R101", 30, "non-lab"), Room("LAB1", 30, "lab") >>, 1, ShortWeek)

\* no cohort of the first program
SeqNoIT ==
  Instance(<< Course("PathFit 1", 1, 1, 2, 0) >>, << Cohort("IS", 1, "A", 20) >>,
           << Room("R101", 30, "non-lab") >>, 1, ShortWeek)

SeqInstances == {SeqOneRoom, SeqLab, SeqNoIT}

\* phase 1 has built its model
InitSeq ==
  /\ pc = "seq_built"
  /\ \E in \in SeqInstances :
       /\ opt = build_model(ProgramFilter(in, {"IT"}))
       /\ seq = [in |-> in,
                 it_optimizer |-> opt,
                 it_value1 |-> {},
                 it_schedule_df |-> {},
                 occupied_room_slots |-> {},
                 error |-> "none"]
  /\ model = opt.constraints
  /\ value1 = {}
  /\ status = "none"
  /\ order = <<>>
  /\ trail = {}
  /\ cursor = 0
  /\ call = Null
  /\ greedy = Null
  /\ hier = Null
  /\ prog = Null
  /\ yrs = Null
  /\ pbp = Null

SeqFrame == UNCHANGED <<call, greedy, hier, prog, yrs, pbp>>

\* _run_single_optimization finds no variable and skips the solve; the
\* status is not Optimal and the sequential run halts
SeqSkipSolve ==
  /\ pc = "seq_built"
  /\ opt.X = {}
  /\ status' = "Not Solved"
  /\ pc' = "seq_halted"
  /\ UNCHANGED <<opt, model, value1, order, trail, cursor, seq>>
  /\ SeqFrame

\* optimizer.solve of phase 1
SeqSolve ==
  /\ pc = "seq_built"
  /\ opt.X # {}
  /\ pc' = "solving"
  /\ order' = BlocksOf(opt.course_components, opt.patterns, opt.sessions, opt.Y, opt.X)
  /\ trail' = {}
  /\ cursor' = 0
  /\ UNCHANGED <<opt, model, value1, status, locals>>

SeqSolved == SolverReturn("it_solved")

\* it_schedule_df = it_optimizer.get_full_schedule_df()
SeqExport ==
  /\ pc = "it_solved"
  /\ seq' = [seq EXCEPT !.it_value1 = value1,
                        !.it_schedule_df = get_full_schedule_df(opt, value1)]
  /\ pc' = "it_exported"
  /\ UNCHANGED <<opt, model, value1, status, order, trail, cursor>>
  /\ SeqFrame

\* phase 2 up to the end of build_model.  With rows to avoid,
\* _add_existing_schedule_constraints ends in a print that reads the
\* undefined name start_time: build_model raises and no second optimizer
\* is returned.
SeqBuildIS ==
  /\ pc = "it_exported"
  /\ LET o == build_model(ProgramFilter(seq.in, {"IS"}))
         occupied == existing_room_slots(o.in.rooms, seq.it_schedule_df)
     IN /\ opt' = o
        /\ model' = o.constraints \cup ExistingScheduleConstraints(o, occupied)
        /\ seq' = [seq EXCEPT !.occupied_room_slots = occupied,
                              !.error = IF seq.it_schedule_df = {} THEN "none"
                                        ELSE "NameError"]
        /\ pc' = IF seq.it_schedule_df = {} THEN "is_built" ELSE "seq_raised"
  /\ UNCHANGED <<value1, status, order, trail, cursor>>
  /\ SeqFrame

NextSeq == SeqSkipSolve \/ SeqSolve \/ SolverBranch \/ SeqSolved \/ SeqExport \/ SeqBuildIS

SpecSeq == InitSeq /\ [][NextSeq]_vars

\* the (room index, slot) pairs covered by the assignments of the first run
FirstRunCovers ==
  UNION {{<<a[2], t>> : t \in slot_occupation(seq.it_optimizer.sessions, a[1], a[3])} :
           a \in Placed(seq.it_value1)}

\* C19: the blocked (room, slot) pairs derived from the rows of the first
\* run contain every (room, slot) one of its assignments covers, and every
\* variable of the second model that covers one of them is forced to 0.
C19_FirstRunIsBlocked ==
  pc \in {"is_built", "seq_raised"} =>
    /\ FirstRunCovers \subseteq seq.occupied_room_slots
    /\ \A x \in opt.X :
         (\E t \in slot_occupation(opt.sessions, x[1], x[3]) : <<x[2], t>> \in FirstRunCovers)
           => \E c \in model : /\ c.name[1] = "ExistingScheduleConflict"
                               /\ c.pos = {XVar(x[1], x[2], x[3])}


(***************************************************************************)
(* Program-sliced strategy: sessions and the midday gap.                   *)
(***************************************************************************)
\* wall-clock minutes at which slot s of the PBP grid begins and ends
pbp_slot_start(s) == 60 * pbp_time_slots[s + 1].hour + pbp_time_slots[s + 1].minute
pbp_slot_end(s) == pbp_slot_start(s) + 30

\* a session started at slot_idx begins before 12:00 and ends after 13:00
CrossesMidday(duration_slots, slot_idx) ==
  /\ pbp_slot_start(slot_idx) < 12 * 60
  /\ pbp_slot_end(slot_idx + duration_slots - 1) > 13 * 60

\* C21: in the program-sliced strategy no assignment variable is created
\* for a start from which the session would begin before 12:00 and end
\* after 13:00, and no committed row spans the midday gap.
C21_NoSessionAcrossMidday ==
  /\ pc = "solving" =>
       \A x \in pbp.X : ~CrossesMidday(pbp.sessions[x[1] + 1].duration_slots, x[3])
  /\ \A a \in CombinedRows : ~(a[2].Start < 12 * 60 /\ a[2].End > 13 * 60)


(***************************************************************************)
(* _get_session_configs on its own: one call per course row.               *)
(***************************************************************************)
\* lecture and laboratory hours of a course row range over 0..MaxHours
MaxHours == 3

CourseCodes == {"IT 128", "IS 404", "PathFit 1", "PathFit 3", "NSTP 1", "IT 111", "GEC 1"}

InitConfigs ==
  /\ pc = "configs_call"
  /\ call \in {[course |-> Course(code, 1, 1, lec_hours, lab_hours), configs |-> <<>>] :
                 <<code, lec_hours, lab_hours>> \in CourseCodes \X (0..MaxHours) \X (0..MaxHours)}
  /\ opt = Null
  /\ model = {}
  /\ value1 = {}
  /\ status = "none"
  /\ order = <<>>
  /\ trail = {}
  /\ cursor = 0
  /\ greedy = Null
  /\ hier = Null
  /\ prog = Null
  /\ yrs = Null
  /\ pbp = Null
  /\ seq = Null

\* configs = self._get_session_configs(course)
ConfigsReturn ==
  /\ pc = "configs_call"
  /\ call' = [call EXCEPT !.configs = get_session_configs(call.course)]
  /\ pc' = "configs_returned"
  /\ UNCHANGED <<opt, model, value1, status, order, trail, cursor,
                 greedy, hier, prog, yrs, pbp, seq>>

NextConfigs == ConfigsReturn

SpecConfigs == InitConfigs /\ [][NextConfigs]_vars

\* weekly total of a pattern, in half-hour slots
WeeklySlots(config) == config.meetings * config.duration

\* the weekly totals of the returned patterns of one session type
WeeklyTotals(configs, type) ==
  {WeeklySlots(configs[n]) : n \in {m \in 1..Len(configs) : configs[m].type = type}}

\* C22: practicum and PathFit codes get only lecture patterns of 2 hours a
\* week; any other course gets lecture patterns of 3 hours a week without
\* laboratory hours and of 2 hours with them (when it has lecture hours),
\* laboratory patterns of 3 hours a week when it has laboratory hours, and
\* no pattern when it has neither; the patterns of one session type all
\* have the same weekly total.
C22_ConfigsByCourseKind ==
  pc = "configs_returned" =>
    LET code == call.course.code
        lec_hours == call.course.lec_hours
        lab_hours == call.course.lab_hours
        configs == call.configs
        special == code \in {"IT 128", "IS 404"} \/ startswith(code, "PathFit")
    IN /\ special =>
            /\ WeeklyTotals(configs, "lecture") = {4}
            /\ WeeklyTotals(configs, "lab") = {}
       /\ ~special =>
            /\ WeeklyTotals(configs, "lecture") =
                 (IF lec_hours = 0 THEN {} ELSE IF lab_hours = 0 THEN {6} ELSE {4})
            /\ WeeklyTotals(configs, "lab") = (IF lab_hours > 0 THEN {6} ELSE {})
            /\ (lec_hours = 0 /\ lab_hours = 0) => configs = <<>>
       /\ \A n \in 1..Len(configs) : configs[n].type \in {"lecture", "lab"}
       /\ \A type \in {"lecture", "lab"} : Cardinality(WeeklyTotals(configs, type)) <= 1

C22_Witness ==
  /\ pc = "configs_returned"
  /\ call.course.code = "IT 111"
  /\ call.course.lec_hours = 2
  /\ call.course.lab_hours = 3
  /\ Len(call.configs) = 4
  /\ WeeklyTotals(call.configs, "lecture") = {4}
  /\ WeeklyTotals(call.configs, "lab") = {6}


(***************************************************************************)
(* solve(): the warm start at the solver call.                             *)
(***************************************************************************)
\* the variables the greedy warm start of the optimizer sets to 1
WarmStartOnes == SolutionOnes(generate_initial_solution(opt))

\* C23: when solve() invokes the solver, every Y and X variable the greedy
\* warm start set to 1 carries the initial value 1.
C23_SolveSeedsWarmStart ==
  (pc = "solving" /\ cursor = 0) => WarmStartOnes \subseteq value1


(***************************************************************************)
(* solve_hierarchical: cohesion of the patterns of a tier.                 *)
(***************************************************************************)
\* C24: in every schedule committed by solve_hierarchical, the sessions of
\* a chosen pattern with more than one session share one room and one
\* time-of-day offset and lie on pairwise distinct days.
C24_TierPatternsCohesive ==
  pc \in {"hier_loop", "hier_done"} => Cohesive(value1)


(***************************************************************************)
(* solve_progressive: the status it returns.                               *)
(***************************************************************************)
\* C25: solve_progressive returns the status of the best solution it
\* found, and Infeasible only when no iteration produced a solution.
C25_ReturnsBestStatus ==
  pc = "prog_done" =>
    /\ prog.best_solution # Null => status = prog.best_status
    /\ status = "Infeasible" => prog.best_solution = Null


(***************************************************************************)
(* _generate_initial_solution: what a pattern leaves behind.               *)
(***************************************************************************)
\* the solution and the occupied sets
GreedyCommitted ==
  <<greedy.solution, greedy.occupied_room_slots, greedy.occupied_group_slots>>

\* every session of the pattern under examination has a temporary assignment
AllSessionsPlaced ==
  /\ pc = "greedy_sess"
  /\ greedy.p <= Len(greedy.pats)
  /\ {a[1] : a \in greedy.temp_assignments}
       = SeqRange(SessionsOfPattern(opt.sessions, greedy.pats[greedy.p]))
  /\ Cardinality(greedy.temp_assignments)
       = Len(SessionsOfPattern(opt.sessions, greedy.pats[greedy.p]))

\* a step that changes the solution or the occupied sets adds one whole
\* pattern: its Y, the X of each of its sessions and their slots
WholePatternOrNothing ==
  GreedyCommitted' # GreedyCommitted =>
    /\ AllSessionsPlaced
    /\ greedy'.solution.Y = greedy.solution.Y \cup {greedy.pats[greedy.p]}
    /\ greedy.pats[greedy.p] \notin greedy.solution.Y
    /\ greedy'.solution.X = greedy.solution.X \cup greedy.temp_assignments
    /\ greedy'.occupied_room_slots =
         greedy.occupied_room_slots \cup
           UNION {{<<a[2], t>> : t \in slot_occupation(opt.sessions, a[1], a[3])} :
                    a \in greedy.temp_assignments}
    /\ greedy'.occupied_group_slots =
         greedy.occupied_group_slots \cup
           UNION {{<<group_key(opt.sessions[a[1] + 1]), t>> :
                     t \in slot_occupation(opt.sessions, a[1], a[3])} :
                    a \in greedy.temp_assignments}

\* nothing committed is ever changed or removed
CommittedOnlyGrows ==
  /\ greedy.solution.Y \subseteq greedy'.solution.Y
  /\ greedy.solution.X \subseteq greedy'.solution.X
  /\ greedy.occupied_room_slots \subseteq greedy'.occupied_room_slots
  /\ greedy.occupied_group_slots \subseteq greedy'.occupied_group_slots

OnePatternPerComponent ==
  \A p, q \in greedy.solution.Y :
    opt.patterns[p + 1].component_id = opt.patterns[q + 1].component_id => p = q

\* C26: the greedy warm start commits a pattern all-or-nothing (its Y, its
\* X entries and its room and cohort slots enter the solution and the
\* occupied sets only when every session was placed, and a pattern that
\* fails leaves them unchanged), commits at most one pattern per component
\* and never changes or removes what was committed before.
C26_GreedyCommitsWholePatterns ==
  /\ []OnePatternPerComponent
  /\ [][WholePatternOrNothing /\ CommittedOnlyGrows]_vars

\* a pattern was given up after one of its sessions had been placed, while
\* an earlier component is committed
C26_Witness ==
  /\ pc = "greedy_pat"
  /\ greedy.p > 1
  /\ greedy.temp_assignments # {}
  /\ greedy.solution.Y # {}
  /\ greedy.occupied_room_slots # {}

(***************************************************************************)
(* C27: the order of identical sessions after the symmetry step.           *)
(***************************************************************************)
\* the keys (i, j, k) of the X variables that are 1 in `ones`
PlacedKeys(ones) == {<<v[2], v[3], v[4]>> : v \in {w \in ones : w[1] = "X"}}

\* (room, start) of curr is not after (room, start) of next
LexOrdered(x, y) == x[2] < y[2] \/ (x[2] = y[2] /\ x[3] <= y[3])

ConsecutiveOrdered(o, ones) ==
  \A pair \in SeqRange(SymmetryPairs(o)) :
    \A x, y \in PlacedKeys(ones) :
      (x[1] = pair[1].id /\ y[1] = pair[2].id) => LexOrdered(x, y)

\* C27: _add_symmetry_breaking_constraints returns, and in every solution
\* of the model it leaves, two consecutive sessions of a sorted group of
\* identical sessions that are both scheduled have the (room, start) of the
\* first lexicographically not after that of the second.
C27_IdenticalSessionsOrdered ==
  /\ pc # "pre_raised"
  /\ (pc = "solved" /\ symmetry_breaking_constraints(opt) # {}
                    /\ symmetry_breaking_constraints(opt) \subseteq model)
       => ConsecutiveOrdered(opt, value1)

\* C27 without the first conjunct: the order alone
C27_OrderWhenReturned ==
  (pc = "solved" /\ symmetry_breaking_constraints(opt) # {}
                 /\ symmetry_breaking_constraints(opt) \subseteq model)
    => ConsecutiveOrdered(opt, value1)

(***************************************************************************)
(* C28: the objective of the full model.                                   *)
(***************************************************************************)
\* the value of the objective lpSum(self.Y) under an assignment
ObjectiveValue(ones) == Cardinality(Chosen(ones))

\* a component that cannot be placed: each of its patterns has a session
\* without any X variable
CannotBePlaced(o, c) ==
  \A p \in PatternsOfComponent(o.patterns, c.id) :
    \E n \in 1..Len(o.sessions) :
      /\ o.sessions[n].pattern_id = p.id
      /\ XVarsOf(o.X, o.sessions[n].id) = {}

\* C28: every solution the solver can return for the model of build_model
\* has objective value equal to the number of components, and when some
\* component cannot be placed the model has no solution: the solver reports
\* Infeasible and returns none.
C28_ObjectiveIsComponentCount ==
  /\ pc = "solved" => ObjectiveValue(value1) = Len(opt.course_components)
  /\ (\E c \in SeqRange(opt.course_components) : CannotBePlaced(opt, c))
       => /\ pc # "solved"
          /\ (pc = "solving" /\ cursor = Len(order)) => ~Feasible(model, trail)

\* a solution of two components, each with two patterns to choose from
C28_Witness ==
  /\ pc = "solved"
  /\ Len(opt.course_components) = 2
  /\ ObjectiveValue(value1) = 2
  /\ \A c \in SeqRange(opt.course_components) :
       Cardinality(PatternsOfComponent(opt.patterns, c.id)) = 2

(***************************************************************************)
(* C29: no pattern of the catalog is dominated.                            *)
(***************************************************************************)
\* flexibility score a is strictly smaller than score b
ScoreLess(a, b) == a[1] * b[2] < b[1] * a[2]

\* of two patterns of one component, the one with fewer sessions has the
\* strictly smaller flexibility score
FewerSessionsLessFlexible(o) ==
  \A p, q \in SeqRange(o.patterns) :
    (/\ p.component_id = q.component_id
     /\ pattern_metrics(o, p).num_sessions < pattern_metrics(o, q).num_sessions)
      => ScoreLess(pattern_metrics(o, p).flexibility_score,
                   pattern_metrics(o, q).flexibility_score)

\* C29: with the time grid, the valid starts and the session configs of the
\* program, of two patterns of one component the one with fewer sessions has
\* the strictly smaller mean number of valid starts; no pattern is
\* dominated, and _remove_dominated_patterns leaves Y, X and the model as
\* build_model made them.
C29_NoPatternDominated ==
  /\ pc = "built" => /\ FewerSessionsLessFlexible(opt)
                     /\ dominated_patterns(opt) = {}
  /\ pc = "pruned" => /\ opt = build_model(opt.in)
                      /\ model = opt.constraints
                      /\ \A c \in SeqRange(opt.course_components) :
                           \A p \in PatternsOfComponent(opt.patterns, c.id) : p.id \in opt.Y

\* the removal has run on a pure lecture course with its two patterns
C29_Witness ==
  /\ pc = "pruned"
  /\ opt.in = PruneLecture
  /\ HasDominanceCandidate(opt)
  /\ Cardinality(opt.Y) = 2

(***************************************************************************)
(* The day string of export_schedule read back by _time_str_to_slots.      *)
(***************************************************************************)
\* the time ranges of the rows: a morning and an afternoon hour
RowTimes == {<<times[1][1], times[2][2]>>, <<times[9][1], times[10][2]>>}

\* a row for the non-empty set D of days: its Time cell has one line per
\* day, as export_schedule writes it, or a single line
InitDays ==
  /\ pc = "days_call"
  /\ call \in {[D |-> D, time_str |-> [n \in 1..lines |-> t], days_str |-> <<>>, slots |-> {}] :
                 <<D, t, lines>> \in {q \in (SUBSET SeqRange(days)) \X RowTimes \X (1..Len(days)) :
                                        /\ q[1] # {}
                                        /\ q[3] \in {1, Cardinality(q[1])}}}
  /\ opt = Null
  /\ model = {}
  /\ value1 = {}
  /\ status = "none"
  /\ order = <<>>
  /\ trail = {}
  /\ cursor = 0
  /\ greedy = Null
  /\ hier = Null
  /\ prog = Null
  /\ yrs = Null
  /\ pbp = Null
  /\ seq = Null

\* days_str = "".join(sorted(time_room_by_day.keys(), ...))
DaysExport ==
  /\ pc = "days_call"
  /\ call' = [call EXCEPT !.days_str = JoinDays(SelectSeq(days, LAMBDA d : d \in call.D))]
  /\ pc' = "days_exported"
  /\ UNCHANGED <<opt, model, value1, status, order, trail, cursor,
                 greedy, hier, prog, yrs, pbp, seq>>

\* self._time_str_to_slots(row['Time'], row['Days'])
DaysDecode ==
  /\ pc = "days_exported"
  /\ call' = [call EXCEPT !.slots = time_str_to_slots(call.time_str, call.days_str)]
  /\ pc' = "days_decoded"
  /\ UNCHANGED <<opt, model, value1, status, order, trail, cursor,
                 greedy, hier, prog, yrs, pbp, seq>>

NextDays == DaysExport \/ DaysDecode

SpecDays == InitDays /\ [][NextDays]_vars

\* the days on which a set of slots lies
DaysOfSlots(slots) == {time_slots[k].day : k \in slots}

\* C30: for every non-empty set D of weekdays, the day string built from D,
\* read back by _time_str_to_slots with a one-line time range, gives slots
\* on every day of D and on no other day.
C30_DayStringRoundTrip ==
  (pc = "days_decoded" /\ Len(call.time_str) = 1) => DaysOfSlots(call.slots) = call.D

\* C30 for the sets that do not hold both T and TH
C30_RoundTripWithoutTuesdayThursday ==
  (pc = "days_decoded" /\ Len(call.time_str) = 1 /\ ~({"T", "TH"} \subseteq call.D))
    => DaysOfSlots(call.slots) = call.D

=============================================================================
